---- MODULE Spec2Model ----
(***************************************************************************)
(* A model of the AutoPwn scanner of supabase-pwn: the batch runner        *)
(* runInBatches, the verdict classification of the database probes and     *)
(* the phase engine handleStartScan / handleAbort.                         *)
(*                                                                         *)
(* JavaScript runs one macrotask at a time.  A step of the model is one    *)
(* synchronous stretch of code; where the model cuts a synchronous stretch *)
(* into several steps (to make every setPhase call a state), handleAbort   *)
(* is disabled in between: it is a click handler, a macrotask, and runs    *)
(* only while the scan waits for a network response.                       *)
(***************************************************************************)
EXTENDS Integers, Sequences, FiniteSets, TLC

(***************************************************************************)
(* Strings that the code inspects are sequences of one-character strings.  *)
(***************************************************************************)
UpperChars == <<"A","B","C","D","E","F","G","H","I","J","K","L","M",
                "N","O","P","Q","R","S","T","U","V","W","X","Y","Z">>

LowerChars == <<"a","b","c","d","e","f","g","h","i","j","k","l","m",
                "n","o","p","q","r","s","t","u","v","w","x","y","z">>

\* String.prototype.toLowerCase, one character.
LowerChar(c) ==
  IF \E k \in 1..Len(UpperChars) : UpperChars[k] = c
  THEN LowerChars[CHOOSE k \in 1..Len(UpperChars) : UpperChars[k] = c]
  ELSE c

\* String.prototype.toLowerCase.
ToLowerCase(s) == [k \in 1..Len(s) |-> LowerChar(s[k])]

\* String.prototype.includes.
Includes(s, sub) ==
  \E k \in 0..(Len(s) - Len(sub)) : SubSeq(s, k + 1, k + Len(sub)) = sub

\* The value undefined/null of an optional field.
Nullish == "undefined"

\* An absent error.message (a message is a sequence, so is its absence).
NoMessage == <<"undefined">>

\* error.code ?? d
Coalesce(x, d) == IF x = Nullish THEN d ELSE x

\* error.message ?? d
CoalesceMessage(x, d) == IF x = NoMessage THEN d ELSE x

WordDenied     == <<"d","e","n","i","e","d">>
WordRls        == <<"r","l","s">>
WordPermission == <<"p","e","r","m","i","s","s","i","o","n">>
WordPolicy     == <<"p","o","l","i","c","y">>

\* The PostgreSQL error code insufficient_privilege.
InsufficientPrivilege == "42501"

(***************************************************************************)
(* A probe reply, as the awaited SDK call delivers it:                     *)
(*   kind "data"  : { data, error: null }, n rows in data                  *)
(*   kind "error" : { error: { code, message } }, each field optional      *)
(*   kind "throw" : the awaited call rejected with an Error(msg)           *)
(***************************************************************************)
DataReply(n)         == [kind |-> "data",  code |-> Nullish, msg |-> NoMessage, n |-> n]
ErrorReply(code, m)  == [kind |-> "error", code |-> code,    msg |-> m,       n |-> 0]
ThrowReply(m)        == [kind |-> "throw", code |-> Nullish, msg |-> m,       n |-> 0]

\* A plausible slip: the message is matched without lower-casing it.
SelectVerdictCaseSensitive(reply) ==
  IF reply.kind = "throw" THEN "error"
  ELSE IF reply.kind = "error"
  THEN LET code == Coalesce(reply.code, "")
           msg  == CoalesceMessage(reply.msg, <<>>)
       IN IF \/ code = InsufficientPrivilege
             \/ Includes(msg, WordDenied)
             \/ Includes(msg, WordRls)
             \/ Includes(msg, WordPermission)
             \/ Includes(msg, WordPolicy)
          THEN "denied"
          ELSE "error"
  ELSE "allowed"

\* runDatabaseRls, the SELECT probe: result.select.
SelectVerdict(reply) ==
  IF reply.kind = "throw" THEN "error"
  ELSE IF reply.kind = "error"
  THEN LET code == Coalesce(reply.code, "")
           msg  == ToLowerCase(CoalesceMessage(reply.msg, <<>>))
       IN IF \/ code = InsufficientPrivilege
             \/ Includes(msg, WordDenied)
             \/ Includes(msg, WordRls)
             \/ Includes(msg, WordPermission)
             \/ Includes(msg, WordPolicy)
          THEN "denied"
          ELSE "error"
  ELSE "allowed"

\* runDatabaseRls, the INSERT probe: result.insert.
InsertVerdict(reply) ==
  IF reply.kind = "throw" THEN "error"
  ELSE IF reply.kind = "error"
  THEN LET code == Coalesce(reply.code, "")
           msg  == ToLowerCase(CoalesceMessage(reply.msg, <<>>))
       IN IF \/ code = InsufficientPrivilege
             \/ Includes(msg, WordDenied)
             \/ Includes(msg, WordRls)
             \/ Includes(msg, WordPermission)
             \/ Includes(msg, WordPolicy)
          THEN "denied"
          ELSE "error"
  ELSE "allowed"

\* runDatabaseRls, the cleanup DELETE probe: result.delete.
DeleteVerdict(reply) ==
  IF reply.kind = "throw" THEN "error"
  ELSE IF reply.kind = "error"
  THEN LET code == Coalesce(reply.code, "")
           msg  == ToLowerCase(CoalesceMessage(reply.msg, <<>>))
       IN IF \/ code = InsufficientPrivilege
             \/ Includes(msg, WordDenied)
             \/ Includes(msg, WordRls)
             \/ Includes(msg, WordPermission)
             \/ Includes(msg, WordPolicy)
          THEN "denied"
          ELSE "error"
  ELSE "allowed"

\* The verdict of one database probe of kind op.
ProbeVerdict(op, reply) ==
  CASE op = "select" -> SelectVerdict(reply)
    [] op = "insert" -> InsertVerdict(reply)
    [] op = "delete" -> DeleteVerdict(reply)

(***************************************************************************)
(* State.                                                                  *)
(***************************************************************************)
VARIABLES
  config,           \* ScanConfig (useState)
  schema,           \* the catalogue handed down by useSupabase()
  phase,            \* ScanPhase (useState)
  scanning,         \* useState(false)
  progress,         \* useState(0)
  progressLabel,    \* useState("")
  dbResults,        \* useState<ScanResult[]>([])
  storageResults,   \* useState<StorageResult[]>([])
  authResults,      \* useState<AuthResult[]>([])
  functionResults,  \* useState<FunctionResult[]>([])
  abortRef,         \* abortRef.current.aborted
  logs,             \* the activity log entries added since the scan started
  pc,               \* where handleStartScan stands
  frame,            \* the locals of the phase function that is running
  rb,               \* the locals of the running runInBatches call
  tasks,            \* the promises of the tasks handed to runInBatches
  issued,           \* history: the requests sent since the scan started
  abortedAt,        \* history: the phase, and the call awaited, when handleAbort first ran
  err,              \* what the catch block of handleStartScan caught
  cls,              \* the classifier's input and verdict (SpecClassify)
  provider          \* the provider's connection state, and the initialize call in flight

vars == <<config, schema, phase, scanning, progress, progressLabel, dbResults,
          storageResults, authResults, functionResults, abortRef, logs, pc,
          frame, rb, tasks, issued, abortedAt, err, cls, provider>>

scanVars == <<config, schema, phase, scanning, progress, progressLabel,
              dbResults, storageResults, authResults, functionResults, logs,
              pc, frame, issued, abortedAt, err, provider>>

Min(a, b) == IF a < b THEN a ELSE b

(***************************************************************************)
(* Bounds of the model.                                                    *)
(***************************************************************************)
MaxTasks == 4        \* runInBatches alone: at most this many tasks
MaxWidth == 3        \* runInBatches alone: batch widths 1..MaxWidth
MaxAbortClicks == 2  \* clicks on Abort during one scan
MaxDiscoveries == 2  \* calls of discoverTables on one connection

(***************************************************************************)
(* runInBatches.                                                           *)
(***************************************************************************)
NoFrame == [fn |-> "none"]
NotAborted == [phase |-> "none", during |-> "none"]
NoCall  == [pc |-> "off", kind |-> "none", i |-> 0, w |-> 1, n |-> 0,
            results |-> <<>>]
NoCls   == [pc |-> "off"]

NewTask == [status |-> "new", step |-> "none", out |-> Nullish]

Settled(task) == task.status \in {"fulfilled", "rejected"}

\* Off by one: the slice takes one task too many.
BatchWide(i, w, n) == (i + 1)..Min(i + w + 1, n)

\* The 1-based positions of tasks.slice(i, i + batchSize).
Batch(i, w, n) == (i + 1)..Min(i + w, n)

\* The wave boundary check left out.
ShouldBreakNever(aborted) == FALSE

\* "if (signal.aborted) break"
ShouldBreak(aborted) == aborted

\* Promise.all: settles with the first rejection, without waiting.
PromiseAll(ts, batch) ==
  IF \E t \in batch : ts[t].status = "rejected" THEN "rejected"
  ELSE IF \A t \in batch : ts[t].status = "fulfilled" THEN "fulfilled"
  ELSE "pending"

\* Promise.race-like: settles as soon as one task of the batch has settled.
PromiseAny(ts, batch) ==
  IF \E t \in batch : Settled(ts[t]) THEN "fulfilled" ELSE "pending"

\* The wave is taken as settled while write probes of its tasks are still
\* out, as if the tasks did not await them.
PromiseSelectsSettled(ts, batch) ==
  IF \A t \in batch : Settled(ts[t]) \/ ts[t].step \in {"insert", "delete"}
  THEN "fulfilled" ELSE "pending"

\* The promise of the wave is never taken as settled.
PromisePending(ts, batch) == "pending"

\* Promise.allSettled(batch.map((t) => t())): fulfils once every promise of
\* the batch has settled, and never rejects.
PromiseAllSettled(ts, batch) ==
  IF \A t \in batch : Settled(ts[t]) THEN "fulfilled" ELSE "pending"

\* The outcomes pushed last task first.
BatchResultsReversed(ts, i, hi) == [k \in 1..(hi - i) |-> ts[hi + 1 - k].out]

\* The outcomes of a wave are not kept.
BatchResultsNone(ts, i, hi) == <<>>

\* "for (const r of batchResults) results.push(fulfilled ? value : reason)"
BatchResults(ts, i, hi) == [k \in 1..(hi - i) |-> ts[i + k].out]

(***************************************************************************)
(* The project under test: what its API answers.  Messages are those of    *)
(* PostgREST, the storage API, GoTrue and the functions relay.             *)
(***************************************************************************)
MsgPermissionDenied == <<"P","e","r","m","i","s","s","i","o","n"," ","d","e","n","i","e","d">>
MsgRlsViolation     == <<"v","i","o","l","a","t","e","s"," ","R","L","S">>
MsgNoRelation       == <<"n","o"," ","r","e","l","a","t","i","o","n">>
MsgFailedToFetch    == <<"F","a","i","l","e","d"," ","t","o"," ","f","e","t","c","h">>
MsgSignupsDisabled  == <<"S","i","g","n","u","p","s"," ","n","o","t"," ","a","l","l","o","w","e","d">>
MsgRateLimit        == <<"r","a","t","e"," ","l","i","m","i","t">>
MsgNotFound         == <<"N","o","t"," ","F","o","u","n","d">>
MsgUnauthorized     == <<"U","n","a","u","t","h","o","r","i","z","e","d">>

SelectReplies(table) ==
  CASE table = "users"   -> {DataReply(1)}
    [] table = "secrets" -> {ErrorReply(InsufficientPrivilege, MsgPermissionDenied)}
    [] table = "orders"  -> {ErrorReply("42P01", MsgNoRelation), DataReply(0)}
    [] OTHER             -> {ThrowReply(MsgFailedToFetch)}

InsertReplies(table) ==
  CASE table = "users"   -> {DataReply(0)}
    [] table = "secrets" -> {ErrorReply(Nullish, MsgRlsViolation)}
    [] OTHER             -> {ErrorReply("42P01", MsgNoRelation)}

DeleteReplies(table) ==
  CASE table = "users"   -> {DataReply(0)}
    [] table = "secrets" -> {ErrorReply(InsufficientPrivilege, NoMessage)}
    [] OTHER             -> {ThrowReply(MsgFailedToFetch)}

\* client.storage.listBuckets(): an error, no bucket, or two buckets.
Buckets == <<[name |-> "avatars", public |-> TRUE],
             [name |-> "docs",    public |-> FALSE]>>

ListBucketsReplies ==
  { [kind |-> "error", msg |-> MsgUnauthorized, buckets |-> <<>>],
    [kind |-> "data",  msg |-> NoMessage,         buckets |-> <<>>],
    [kind |-> "data",  msg |-> NoMessage,         buckets |-> Buckets],
    [kind |-> "throw", msg |-> MsgFailedToFetch, buckets |-> <<>>] }

ListReplies(bucket) ==
  CASE bucket = "avatars" -> {DataReply(3)}
    [] OTHER              -> {ErrorReply(Nullish, MsgRlsViolation)}

\* client.auth.signUp: user tells whether data.user is present.
SignUpReplies ==
  { [kind |-> "data",  msg |-> NoMessage,            user |-> TRUE],
    [kind |-> "data",  msg |-> NoMessage,            user |-> FALSE],
    [kind |-> "error", msg |-> MsgSignupsDisabled, user |-> FALSE] }

\* client.auth.signInAnonymously: user tells whether data.session is present.
SignInAnonymouslyReplies ==
  { [kind |-> "data",  msg |-> NoMessage,      user |-> TRUE],
    [kind |-> "error", msg |-> MsgRateLimit, user |-> FALSE] }

SignOutReplies == {DataReply(0), ThrowReply(MsgFailedToFetch)}

InvokeReplies(name) ==
  CASE name = "hello"   -> {DataReply(0)}
    [] name = "api"     -> {ErrorReply(Nullish, MsgUnauthorized)}
    [] name = "webhook" -> {ThrowReply(MsgFailedToFetch)}
    [] OTHER            -> {ErrorReply(Nullish, MsgNotFound)}

(***************************************************************************)
(* The tasks handed to runInBatches.  Calling a task runs it up to its     *)
(* first await.                                                            *)
(***************************************************************************)
Task(name) == [name |-> name, status |-> "new", step |-> "none", out |-> Nullish]

\* ScanResult; an absent field is Nullish.
Row(name) == [name |-> name, select |-> Nullish, insert |-> Nullish,
              update |-> Nullish, delete |-> Nullish, details |-> Nullish]

\* The task of selectTasks for table, called: up to the SELECT request.
StartDbTask(task, aborted) ==
  IF aborted
  THEN [task EXCEPT !.status = "fulfilled",
                    !.out = [Row(task.name) EXCEPT !.select = "error",
                                                   !.details = "Aborted"]]
  ELSE [task EXCEPT !.status = "run", !.step = "select",
                    !.out = Row(task.name)]

\* The task of runEdgeFunctionDiscovery for name, called: up to invoke(name).
StartFnTask(task, aborted) ==
  IF aborted
  THEN [task EXCEPT !.status = "fulfilled",
                    !.out = [name |-> task.name, status |-> "error"]]
  ELSE [task EXCEPT !.status = "run", !.step = "invoke"]

\* t(), for the task lists of the two callers and for an opaque task.
StartTask(kind, task, aborted) ==
  CASE kind = "db" -> StartDbTask(task, aborted)
    [] kind = "fn" -> StartFnTask(task, aborted)
    [] OTHER       -> [task EXCEPT !.status = "run", !.step = "call"]

\* The requests that calling the tasks of a batch sends.
Sent(ts, batch) ==
  { <<ts[t].step, ts[t].name>> : t \in {u \in batch : ts[u].status = "run"} }

InFlight == \E t \in 1..Len(tasks) : tasks[t].status = "run"

\* The head of the for loop: leave it, or call every task of the next batch.
RbHead ==
  /\ rb.pc = "head"
  /\ IF ~(rb.i < rb.n) \/ ShouldBreak(abortRef)
     THEN /\ rb' = [rb EXCEPT !.pc = "returned"]
          /\ UNCHANGED <<tasks, issued>>
     ELSE LET batch   == Batch(rb.i, rb.w, rb.n)
              started == [t \in 1..Len(tasks) |->
                            IF t \in batch
                            THEN StartTask(rb.kind, tasks[t], abortRef)
                            ELSE tasks[t]]
          IN /\ tasks' = started
             /\ issued' = issued \cup Sent(started, batch)
             /\ rb' = [rb EXCEPT !.pc = "await"]
  /\ UNCHANGED <<config, schema, phase, scanning, progress, progressLabel,
                 dbResults, storageResults, authResults, functionResults,
                 abortRef, logs, pc, frame, abortedAt, err, cls, provider>>

\* The continuation of "await Promise.allSettled(...)".
RbCollect ==
  /\ rb.pc = "await"
  /\ LET batch   == Batch(rb.i, rb.w, rb.n)
         outcome == PromiseAllSettled(tasks, batch)
     IN /\ outcome # "pending"
        /\ rb' = IF outcome = "rejected"
                 THEN [rb EXCEPT !.pc = "threw"]
                 ELSE [rb EXCEPT !.pc = "head",
                                 !.i = rb.i + rb.w,
                                 !.results = rb.results \o
                                   BatchResults(tasks, rb.i, Min(rb.i + rb.w, rb.n))]
  /\ UNCHANGED <<config, schema, phase, scanning, progress, progressLabel,
                 dbResults, storageResults, authResults, functionResults,
                 abortRef, logs, pc, frame, tasks, issued, abortedAt, err, cls, provider>>

\* An opaque task settles: its promise fulfils or rejects.
TaskSettles(t, ok) ==
  /\ rb.kind = "generic"
  /\ tasks[t].status = "run"
  /\ tasks' = [tasks EXCEPT ![t] =
       [@ EXCEPT !.status = IF ok THEN "fulfilled" ELSE "rejected",
                 !.step = "none",
                 !.out = [settled |-> IF ok THEN "value" ELSE "reason",
                          task |-> t]]]
  /\ UNCHANGED <<config, schema, phase, scanning, progress, progressLabel,
                 dbResults, storageResults, authResults, functionResults,
                 abortRef, logs, pc, frame, rb, issued, abortedAt, err, cls, provider>>

\* Some holder of the signal sets signal.aborted while requests are out.
SignalAbort ==
  /\ rb.kind = "generic"
  /\ InFlight
  /\ ~abortRef
  /\ abortRef' = TRUE
  /\ UNCHANGED <<config, schema, phase, scanning, progress, progressLabel,
                 dbResults, storageResults, authResults, functionResults,
                 logs, pc, frame, rb, tasks, issued, abortedAt, err, cls, provider>>
\* The projects that the provider is connected to.
ProjectA == "https://a.supabase.co"
ProjectB == "https://b.supabase.co"
Projects == {ProjectA, ProjectB}

\* initialState of the reducer: no connection.  loading is the project of the
\* initialize call that is awaiting the schema document, "" when none is.
Disconnected == [initialized |-> FALSE, projectUrl |-> "", loading |-> ""]

\* The state after INITIALIZE for the first project.
Connected == [initialized |-> TRUE, projectUrl |-> ProjectA, loading |-> ""]

DefaultConfig ==
  [databaseRls |-> TRUE, storageScan |-> TRUE, authProbing |-> TRUE,
   edgeFunctions |-> FALSE, concurrency |-> 10, writeTesting |-> FALSE,
   customTables |-> <<>>]

\* The component at rest: the values its useState calls start from.
ScanAtRest ==
  /\ config = DefaultConfig
  /\ schema = [tables |-> <<>>, views |-> <<>>, functions |-> <<>>]
  /\ phase = "idle"
  /\ scanning = FALSE
  /\ progress = 0
  /\ progressLabel = ""
  /\ dbResults = <<>>
  /\ storageResults = <<>>
  /\ authResults = <<>>
  /\ functionResults = <<>>
  /\ logs = <<>>
  /\ pc = "idle"
  /\ frame = NoFrame
  /\ issued = {}
  /\ abortedAt = NotAborted
  /\ err = "none"
  /\ provider = Connected

\* runInBatches(tasks, batchSize, signal) called on n opaque tasks.
InitRunner ==
  /\ ScanAtRest
  /\ cls = NoCls
  /\ abortRef \in BOOLEAN
  /\ \E n \in 0..MaxTasks, w \in 1..MaxWidth :
       /\ rb = [pc |-> "head", kind |-> "generic", i |-> 0, w |-> w, n |-> n,
                results |-> <<>>]
       /\ tasks = [t \in 1..n |-> Task(t)]

NextRunner ==
  \/ RbHead
  \/ RbCollect
  \/ \E t \in 1..Len(tasks), ok \in BOOLEAN : TaskSettles(t, ok)
  \/ SignalAbort

SpecRunner == InitRunner /\ [][NextRunner]_vars

(***************************************************************************)
(* runInBatches: the claims C3..C7, checked under SpecRunner.              *)
(***************************************************************************)
Started(t) == tasks[t].status # "new"

Running == {t \in 1..Len(tasks) : tasks[t].status = "run"}

\* The wave (0, 1, ...) that task t belongs to.
WaveOf(t) == (t - 1) \div rb.w

\* C3: the abort flag is checked before each wave: once the flag is set no
\* task that has not been started is started any more, and the list returned
\* holds exactly the outcomes of the waves that had settled, which are exactly
\* the tasks that were started.
C3_AbortCheckedBeforeEachWave ==
  /\ [][abortRef =>
          \A t \in 1..Len(tasks) : ~Started(t) => tasks'[t].status = "new"]_vars
  /\ [](rb.pc = "returned" =>
          /\ \A t \in 1..Len(tasks) : Started(t) <=> t <= Len(rb.results)
          /\ \A t \in 1..Len(rb.results) :
               Settled(tasks[t]) /\ rb.results[t].task = t)

\* C3 happens: the flag was set while a wave was out, the call has returned
\* with the outcomes of the waves run, and a later wave was never started.
C3_Witness ==
  /\ rb.pc = "returned"
  /\ abortRef
  /\ Len(rb.results) > 0
  /\ \E t \in 1..Len(tasks) : ~Started(t)

\* C4: at most W tasks are started and not yet settled.
C4_AtMostWidthUnsettled == Cardinality(Running) <= rb.w

\* C4 happens: a full wave of W >= 2 tasks is out, with more tasks waiting.
C4_Witness ==
  /\ rb.w >= 2
  /\ Cardinality(Running) = rb.w
  /\ rb.n > rb.w

\* C5: a task of wave k+1 is started only after every task of wave k (and of
\* the waves before) has settled.
C5_WaveAfterWave ==
  \A t, u \in 1..Len(tasks) :
    (Started(t) /\ WaveOf(u) < WaveOf(t)) => Settled(tasks[u])

\* C5 happens: a task of the second wave is out.
C5_Witness ==
  \E t \in Running : WaveOf(t) >= 1 /\ rb.w >= 2

\* C6: no fail-fast.  runInBatches never rejects; when it returns, no started
\* task is left unsettled; unless aborted every task was run, and a rejected
\* task's reason stands at the task's position in the list returned.
C6_NoFailFast ==
  /\ rb.pc # "threw"
  /\ rb.pc = "returned" => \A t \in 1..Len(tasks) : Started(t) => Settled(tasks[t])
  /\ (rb.pc = "returned" /\ ~abortRef) =>
       /\ \A t \in 1..Len(tasks) : Settled(tasks[t])
       /\ Len(rb.results) = rb.n
       /\ \A t \in 1..Len(tasks) :
            tasks[t].status = "rejected" =>
              rb.results[t] = [settled |-> "reason", task |-> t]

\* C6 happens: a task of the first wave rejected, a sibling fulfilled, and
\* the later wave was run all the same.
C6_Witness ==
  /\ rb.pc = "returned"
  /\ ~abortRef
  /\ rb.n > rb.w
  /\ rb.w >= 2
  /\ tasks[1].status = "rejected"
  /\ tasks[2].status = "fulfilled"
  /\ tasks[rb.n].status = "fulfilled"

\* C7: with the flag never set, the list returned has one outcome per task
\* and the outcome at position t is that of task t.
C7_OutcomesInTaskOrder ==
  (rb.pc = "returned" /\ ~abortRef) =>
    /\ Len(rb.results) = rb.n
    /\ \A t \in 1..rb.n :
         rb.results[t] =
           [settled |-> IF tasks[t].status = "fulfilled" THEN "value" ELSE "reason",
            task |-> t]

\* C7 happens: several waves, each of several tasks, have been collected.
C7_Witness ==
  /\ rb.pc = "returned"
  /\ ~abortRef
  /\ rb.w >= 2
  /\ rb.n >= 2 * rb.w
  /\ Len(rb.results) = rb.n

(***************************************************************************)
(* The classification of one database probe, on its own (SpecClassify).    *)
(***************************************************************************)
UpperChar(c) ==
  IF \E k \in 1..Len(LowerChars) : LowerChars[k] = c
  THEN UpperChars[CHOOSE k \in 1..Len(LowerChars) : LowerChars[k] = c]
  ELSE c

\* The spellings of a word that the replies are drawn from.
Spellings(w) ==
  { w,
    [k \in 1..Len(w) |-> UpperChar(w[k])],
    [k \in 1..Len(w) |-> IF k = 1 THEN UpperChar(w[k]) ELSE w[k]] }

\* The key words of the classifier, words that fall just short of one, and a
\* word that has nothing of them.
MessageWords ==
  { WordDenied, WordRls, WordPermission, WordPolicy,
    <<"d","e","n","i","e">>, <<"r","l">>, <<"p","e","r","m","i","t">>, <<"p","o","l","i","c">>, <<"t","i","m","e","o","u","t">> }

MessagePrefixes == { <<>>, <<"n","o"," ">> }
MessageSuffixes == { <<>>, <<"s">> }

Messages ==
  {NoMessage, <<>>} \cup
  { pre \o word \o suf :
      pre \in MessagePrefixes,
      word \in UNION {Spellings(w) : w \in MessageWords},
      suf \in MessageSuffixes }

ErrorCodes == {Nullish, InsufficientPrivilege, "42P01", "PGRST301"}

ProbeReplies ==
  {DataReply(n) : n \in {0, 1}}
    \cup {ErrorReply(code, m) : code \in ErrorCodes, m \in Messages}
    \cup {ThrowReply(m) : m \in Messages}

ProbeOps == {"select", "insert", "delete"}

InitClassify ==
  /\ ScanAtRest
  /\ abortRef = FALSE
  /\ rb = NoCall
  /\ tasks = <<>>
  /\ \E op \in ProbeOps, reply \in ProbeReplies :
       cls = [pc |-> "replied", op |-> op, reply |-> reply, verdict |-> Nullish]

\* The continuation of the awaited probe: the verdict is set.
Classify ==
  /\ cls.pc = "replied"
  /\ cls' = [cls EXCEPT !.pc = "classified",
                        !.verdict = ProbeVerdict(cls.op, cls.reply)]
  /\ UNCHANGED <<scanVars, abortRef, rb, tasks>>

SpecClassify == InitClassify /\ [][Classify]_vars

\* The message holds word, whatever the case of its letters.
HoldsWord(m, word) ==
  /\ m # NoMessage
  /\ \E k \in 0..(Len(m) - Len(word)) :
       \A j \in 1..Len(word) : m[k + j] \in {word[j], UpperChar(word[j])}

HoldsKeyWord(m) ==
  \E word \in {WordDenied, WordRls, WordPermission, WordPolicy} : HoldsWord(m, word)

\* C8 as stated: the verdict is allowed on success, denied for code 42501 or
\* a message holding a key word, error otherwise, and depends on nothing but
\* (success, code, message).
C8_AsStated ==
  cls.pc = "classified" =>
    cls.verdict =
      IF cls.reply.kind = "data" THEN "allowed"
      ELSE IF cls.reply.code = InsufficientPrivilege \/ HoldsKeyWord(cls.reply.msg)
      THEN "denied"
      ELSE "error"

\* C8, amended: allowed on success; when the probe returns an error object,
\* denied for code 42501 or a message holding a key word in any case, and
\* error otherwise; when the probe throws, error whatever the message.
C8_VerdictRule ==
  cls.pc = "classified" =>
    cls.verdict =
      IF cls.reply.kind = "data" THEN "allowed"
      ELSE IF /\ cls.reply.kind = "error"
              /\ cls.reply.code = InsufficientPrivilege \/ HoldsKeyWord(cls.reply.msg)
      THEN "denied"
      ELSE "error"

\* C8 happens: an error of another code whose message holds a key word in
\* upper case was classified as denied.
C8_Witness ==
  /\ cls.pc = "classified"
  /\ cls.reply.kind = "error"
  /\ cls.reply.code = "42P01"
  /\ cls.reply.msg # NoMessage
  /\ Includes(cls.reply.msg, <<"P","O","L","I","C","Y">>)
  /\ cls.verdict = "denied"

(***************************************************************************)
(* The phase engine: configuration, progress, log.                         *)
(***************************************************************************)
PhaseOrder == <<"recon", "database", "storage", "auth", "functions">>

\* The lower bound of the concurrency input: Math.max(5, ...).
MinConcurrency == 5

\* config.customTables split at commas and line ends, each piece trimmed:
\* a piece is a name, or "" when nothing is left of it.
CustomPieces == { <<>>, <<"orders", "", "users">> }

Catalogues == { <<>>, <<"users", "secrets">> }

Configs ==
  [databaseRls : BOOLEAN, storageScan : BOOLEAN, authProbing : BOOLEAN,
   edgeFunctions : BOOLEAN, concurrency : {MinConcurrency},
   writeTesting : BOOLEAN, customTables : CustomPieces]

\* The fixed list of function names probed.
CommonNames == <<"hello", "test", "api", "webhook", "stripe-webhook",
                 "send-email", "notify", "process", "auth", "admin">>

\* Every name is kept, the repeated ones as well.
DedupeKeepsAll(names) == names

RECURSIVE Dedupe(_)
\* [...new Set(names)]: the first occurrence of each name, in order.
Dedupe(names) ==
  IF names = <<>> THEN <<>>
  ELSE LET front == Dedupe(SubSeq(names, 1, Len(names) - 1))
           last  == names[Len(names)]
       IN IF \E k \in 1..Len(front) : front[k] = last
          THEN front
          ELSE Append(front, last)

NonEmpty(piece) == piece # ""

\* allTables of runDatabaseRls.
AllTables(cfg, sch) ==
  Dedupe(sch.tables \o SelectSeq(cfg.customTables, NonEmpty))

\* Every optional phase is run, whatever the configuration says.
RunsPhaseAlways(cfg, p) == TRUE

\* "if (config.databaseRls)", "if (config.storageScan)", ... of handleStartScan.
RunsPhase(cfg, p) ==
  CASE p = "database"  -> cfg.databaseRls
    [] p = "storage"   -> cfg.storageScan
    [] p = "auth"      -> cfg.authProbing
    [] p = "functions" -> cfg.edgeFunctions

RECURSIVE SumWeights(_)
SumWeights(ws) ==
  IF ws = <<>> THEN 0 ELSE ws[1].weight + SumWeights(Tail(ws))

\* getPhaseWeights.
GetPhaseWeights(cfg) ==
  <<[phase |-> "recon", weight |-> 5]>>
    \o (IF cfg.databaseRls   THEN <<[phase |-> "database",  weight |-> 50]>> ELSE <<>>)
    \o (IF cfg.storageScan   THEN <<[phase |-> "storage",   weight |-> 20]>> ELSE <<>>)
    \o (IF cfg.authProbing   THEN <<[phase |-> "auth",      weight |-> 10]>> ELSE <<>>)
    \o (IF cfg.edgeFunctions THEN <<[phase |-> "functions", weight |-> 15]>> ELSE <<>>)

\* Math.round of the fraction p / q, q > 0, p >= 0.
Round(p, q) == (2 * p + q) \div (2 * q)

\* calculateProgress without the weights of the phases already passed.
CalculateProgressCurrentOnly(cfg, currentPhase, num, den) ==
  LET weights     == GetPhaseWeights(cfg)
      totalWeight == SumWeights(weights)
      at          == {k \in 1..Len(weights) : weights[k].phase = currentPhase}
      accumulated ==
        IF at = {} THEN totalWeight * den
        ELSE LET k == CHOOSE j \in at : TRUE
             IN weights[k].weight * num
  IN Min(Round(accumulated * 100, totalWeight * den), 100)

\* calculateProgress(currentPhase, phaseProgress) with phaseProgress the
\* fraction num / den of 100.
CalculateProgress(cfg, currentPhase, num, den) ==
  LET weights     == GetPhaseWeights(cfg)
      totalWeight == SumWeights(weights)
      at          == {k \in 1..Len(weights) : weights[k].phase = currentPhase}
      \* accumulated * den
      accumulated ==
        IF at = {} THEN totalWeight * den
        ELSE LET k == CHOOSE j \in at : TRUE
             IN SumWeights(SubSeq(weights, 1, k - 1)) * den + weights[k].weight * num
  IN Min(Round(accumulated * 100, totalWeight * den), 100)

\* addLog(type, message): the entry appended.
Log(type, msg) == [type |-> type, msg |-> msg]

\* seq.filter(Test).length is written Len(SelectSeq(seq, Test)).

(***************************************************************************)
(* handleStartScan, handleAbort and the database phase.                    *)
(***************************************************************************)
\* The abort checks between the phases left out.
ThrowsAbortedNever(aborted) == FALSE

\* "if (abortRef.current.aborted) throw new Error("Aborted")"
ThrowsAborted(aborted) == aborted

\* The catch block of handleStartScan: which outcome it reports.
CatchOutcome(aborted) == IF aborted THEN "aborted" ELSE "failed"

\* catch (err) { ... } finally { setScanning(false) }, entered with the log
\* as it stands in logsNow.
Catch(thrown, logsNow) ==
  /\ err' = thrown
  /\ phase' = "idle"
  /\ IF CatchOutcome(abortRef) = "aborted"
     THEN /\ progressLabel' = "Scan Aborted"
          /\ logs' = Append(logsNow, Log("warning", "AutoPwn scan aborted by user"))
     ELSE /\ progressLabel' = "Scan Failed"
          /\ logs' = Append(logsNow, Log("error", "AutoPwn scan failed"))
  /\ scanning' = FALSE
  /\ pc' = "idle"

\* handleStartScan up to its first "if (config...)": the reset and runRecon.
\* The abort check that follows runRecon reads the flag that was just reset.
StartScan ==
  /\ pc = "idle"
  /\ ~scanning
  /\ abortRef' = FALSE
  /\ scanning' = TRUE
  /\ dbResults' = <<>>
  /\ storageResults' = <<>>
  /\ authResults' = <<>>
  /\ functionResults' = <<>>
  /\ logs' = <<Log("info", "AutoPwn scan started"), Log("info", "Recon")>>
  /\ phase' = "recon"
  /\ progressLabel' = "Reconnaissance"
  /\ progress' = CalculateProgress(config, "recon", 1, 1)
  /\ pc' = "if_database"
  /\ issued' = {}
  /\ abortedAt' = NotAborted
  /\ err' = "none"
  /\ UNCHANGED <<config, schema, frame, rb, tasks, cls, provider>>

\* "if (config.databaseRls) await runDatabaseRls()", up to the first await.
EnterDatabase ==
  /\ pc = "if_database"
  /\ IF RunsPhase(config, "database")
     THEN LET allTables == AllTables(config, schema)
          IN /\ phase' = "database"
             /\ progressLabel' = "Database RLS Testing"
             /\ IF Len(allTables) = 0
                THEN /\ logs' = Append(logs, Log("warning", "No tables to test for RLS"))
                     /\ progress' = CalculateProgress(config, "database", 1, 1)
                     /\ pc' = "after_database"
                     /\ UNCHANGED <<frame, rb, tasks>>
                ELSE /\ tasks' = [k \in 1..Len(allTables) |-> Task(allTables[k])]
                     /\ rb' = [pc |-> "head", kind |-> "db", i |-> 0,
                               w |-> config.concurrency, n |-> Len(allTables),
                               results |-> <<>>]
                     /\ frame' = [fn |-> "database"]
                     /\ pc' = "in_database"
                     /\ UNCHANGED <<logs, progress>>
     ELSE /\ pc' = "if_storage"
          /\ UNCHANGED <<phase, progressLabel, logs, progress, frame, rb, tasks>>
  /\ UNCHANGED <<config, schema, scanning, dbResults, storageResults,
                 authResults, functionResults, abortRef, issued, abortedAt,
                 err, cls, provider>>

\* Write testing is run whatever the configuration says.
WriteTestingAlways(cfg) == TRUE

\* The write probes are left out once the abort flag is set.
WriteTestingUnlessAborted(cfg) == cfg.writeTesting /\ ~abortRef

\* "if (config.writeTesting)"
WriteTesting(cfg) == cfg.writeTesting

\* What result.details says after the SELECT probe.
SelectDetails(reply) ==
  CASE reply.kind = "error" -> "SELECT: message"
    [] reply.kind = "data"  -> "SELECT returned rows"
    [] reply.kind = "throw" -> "thrown message"

\* A task of selectTasks: the SELECT reply arrives; then the INSERT request
\* is sent, or the three write verdicts are set to skipped.
DbSelectSettles(t, reply) ==
  /\ rb.kind = "db"
  /\ tasks[t].status = "run"
  /\ tasks[t].step = "select"
  /\ reply \in SelectReplies(tasks[t].name)
  /\ LET row == [tasks[t].out EXCEPT !.select = SelectVerdict(reply),
                                      !.details = SelectDetails(reply)]
     IN IF WriteTesting(config)
        THEN /\ tasks' = [tasks EXCEPT ![t] = [@ EXCEPT !.step = "insert", !.out = row]]
             /\ issued' = issued \cup {<<"insert", tasks[t].name>>}
        ELSE /\ tasks' = [tasks EXCEPT ![t] =
                  [@ EXCEPT !.status = "fulfilled", !.step = "none",
                            !.out = [row EXCEPT !.insert = "skipped",
                                                !.update = "skipped",
                                                !.delete = "skipped"]]]
             /\ UNCHANGED issued
  /\ UNCHANGED <<config, schema, phase, scanning, progress, progressLabel,
                 dbResults, storageResults, authResults, functionResults,
                 abortRef, logs, pc, frame, rb, abortedAt, err, cls, provider>>

\* The INSERT reply arrives; the cleanup DELETE request is sent.
DbInsertSettles(t, reply) ==
  /\ rb.kind = "db"
  /\ tasks[t].status = "run"
  /\ tasks[t].step = "insert"
  /\ reply \in InsertReplies(tasks[t].name)
  /\ tasks' = [tasks EXCEPT ![t] =
       [@ EXCEPT !.step = "delete",
                 !.out = [@ EXCEPT !.insert = InsertVerdict(reply)]]]
  /\ issued' = issued \cup {<<"delete", tasks[t].name>>}
  /\ UNCHANGED <<config, schema, phase, scanning, progress, progressLabel,
                 dbResults, storageResults, authResults, functionResults,
                 abortRef, logs, pc, frame, rb, abortedAt, err, cls, provider>>

\* The DELETE reply arrives; the task returns its row.
DbDeleteSettles(t, reply) ==
  /\ rb.kind = "db"
  /\ tasks[t].status = "run"
  /\ tasks[t].step = "delete"
  /\ reply \in DeleteReplies(tasks[t].name)
  /\ tasks' = [tasks EXCEPT ![t] =
       [@ EXCEPT !.status = "fulfilled", !.step = "none",
                 !.out = [@ EXCEPT !.delete = DeleteVerdict(reply)]]]
  /\ UNCHANGED <<config, schema, phase, scanning, progress, progressLabel,
                 dbResults, storageResults, authResults, functionResults,
                 abortRef, logs, pc, frame, rb, issued, abortedAt, err, cls, provider>>

\* The filter on the outcomes of the batch lets nothing through.
HasNameNever(r) == FALSE

\* r && typeof r === "object" && "name" in r
HasName(r) == "name" \in DOMAIN r

SelectAllowed(r) == r.select = "allowed"

\* runDatabaseRls after runInBatches has returned.  fault: a statement of
\* this stretch, which no try block covers, throws.
DbFinish(fault) ==
  /\ pc = "in_database"
  /\ rb.pc = "returned"
  /\ rb' = NoCall
  /\ tasks' = <<>>
  /\ frame' = NoFrame
  /\ IF fault
     THEN /\ Catch("unexpected", logs)
          /\ UNCHANGED <<dbResults, progress>>
     ELSE LET results == SelectSeq(rb.results, HasName)
              allowedCount == Len(SelectSeq(results, SelectAllowed))
          IN /\ dbResults' = results
             /\ logs' = Append(logs, Log(IF allowedCount > 0 THEN "warning" ELSE "success",
                                         "Database RLS"))
             /\ progress' = CalculateProgress(config, "database", 1, 1)
             /\ pc' = "after_database"
             /\ UNCHANGED <<phase, progressLabel, scanning, err>>
  /\ UNCHANGED <<config, schema, storageResults, authResults, functionResults,
                 abortRef, issued, abortedAt, cls, provider>>

\* The phase that the check after phase p leads to.
NextPc(p) ==
  CASE p = "after_database"  -> "if_storage"
    [] p = "after_storage"   -> "if_auth"
    [] p = "after_auth"      -> "if_functions"
    [] p = "after_functions" -> "complete"

\* The check that follows each awaited phase.
AbortCheck ==
  /\ pc \in {"after_database", "after_storage", "after_auth", "after_functions"}
  /\ IF ThrowsAborted(abortRef)
     THEN Catch("Aborted", logs)
     ELSE /\ pc' = NextPc(pc)
          /\ UNCHANGED <<phase, progressLabel, logs, scanning, err>>
  /\ UNCHANGED <<config, schema, progress, dbResults, storageResults,
                 authResults, functionResults, abortRef, frame, rb, tasks,
                 issued, abortedAt, cls, provider>>

\* The end of the try block, and the finally block.
Complete ==
  /\ pc = "complete"
  /\ phase' = "complete"
  /\ progress' = 100
  /\ progressLabel' = "Scan Complete"
  /\ logs' = Append(logs, Log("success", "AutoPwn scan completed"))
  /\ scanning' = FALSE
  /\ pc' = "idle"
  /\ UNCHANGED <<config, schema, dbResults, storageResults, authResults,
                 functionResults, abortRef, frame, rb, tasks, issued,
                 abortedAt, err, cls, provider>>

IsAbortClick(entry) == entry.msg = "Aborting scan..."

\* A request of the scan is out: the only moments at which a click is served.
AwaitingNetwork == InFlight \/ frame.fn \in {"storage", "auth"}

\* handleAbort: the Abort button, shown while scanning.
HandleAbort ==
  /\ scanning
  /\ AwaitingNetwork
  /\ Len(SelectSeq(logs, IsAbortClick)) < MaxAbortClicks
  /\ abortRef' = TRUE
  /\ logs' = Append(logs, Log("warning", "Aborting scan..."))
  /\ abortedAt' = IF abortedAt = NotAborted
                   THEN [phase |-> phase,
                         during |-> IF InFlight THEN "wave" ELSE frame.step]
                   ELSE abortedAt
  /\ UNCHANGED <<config, schema, phase, scanning, progress, progressLabel,
                 dbResults, storageResults, authResults, functionResults,
                 pc, frame, rb, tasks, issued, err, cls, provider>>

(***************************************************************************)
(* The storage phase.                                                      *)
(***************************************************************************)
\* result.listable and result.fileCount for one bucket listing.
ListRow(bucket, reply) ==
  LET msg == ToLowerCase(CoalesceMessage(reply.msg, <<>>))
  IN [name |-> bucket.name,
      public |-> bucket.public,
      listable |->
        IF reply.kind = "throw" THEN "error"
        ELSE IF reply.kind = "error"
        THEN IF \/ Includes(msg, WordDenied)
                \/ Includes(msg, WordPolicy)
                \/ Includes(msg, WordPermission)
             THEN "denied"
             ELSE "error"
        ELSE "allowed",
      fileCount |-> IF reply.kind = "data" THEN reply.n ELSE Nullish]

IsPublic(r) == r.public
IsListable(r) == r.listable = "allowed"

\* "if (config.storageScan) await runStorageScan()", up to listBuckets().
EnterStorage ==
  /\ pc = "if_storage"
  /\ IF RunsPhase(config, "storage")
     THEN /\ phase' = "storage"
          /\ progressLabel' = "Storage Scanning"
          /\ frame' = [fn |-> "storage", step |-> "listBuckets", i |-> 0,
                       buckets |-> <<>>, results |-> <<>>]
          /\ issued' = issued \cup {<<"listBuckets", "">>}
          /\ pc' = "in_storage"
     ELSE /\ pc' = "if_auth"
          /\ UNCHANGED <<phase, progressLabel, frame, issued>>
  /\ UNCHANGED <<config, schema, scanning, progress, dbResults, storageResults,
                 authResults, functionResults, abortRef, logs, rb, tasks,
                 abortedAt, err, cls, provider>>

\* The head of the bucket loop with i buckets done: the next listing is
\* sent, or the loop is left and the rows collected are published.
StorageLoop(i, buckets, results, progressNow) ==
  IF i < Len(buckets) /\ ~abortRef
  THEN /\ frame' = [fn |-> "storage", step |-> "list", i |-> i,
                    buckets |-> buckets, results |-> results]
       /\ issued' = issued \cup {<<"list", buckets[i + 1].name>>}
       /\ progress' = progressNow
       /\ UNCHANGED <<storageResults, logs, pc>>
  ELSE /\ storageResults' = results
       /\ logs' = Append(logs,
            Log(IF Len(SelectSeq(results, IsPublic)) > 0 \/ Len(SelectSeq(results, IsListable)) > 0
                THEN "warning" ELSE "success", "Storage"))
       /\ progress' = CalculateProgress(config, "storage", 1, 1)
       /\ pc' = "after_storage"
       /\ frame' = NoFrame
       /\ UNCHANGED issued

\* The reply of listBuckets() arrives.
StorageBucketsSettle(reply) ==
  /\ pc = "in_storage"
  /\ frame.step = "listBuckets"
  /\ reply \in ListBucketsReplies
  /\ IF reply.kind = "data" /\ Len(reply.buckets) > 0
     THEN StorageLoop(0, reply.buckets, <<>>, progress)
     ELSE /\ logs' = Append(logs,
               CASE reply.kind = "error" -> Log("error", "Storage scan error")
                 [] reply.kind = "throw" -> Log("error", "thrown message")
                 [] OTHER                -> Log("info", "No storage buckets found"))
          /\ progress' = CalculateProgress(config, "storage", 1, 1)
          /\ pc' = "after_storage"
          /\ frame' = NoFrame
          /\ UNCHANGED <<storageResults, issued>>
  /\ UNCHANGED <<config, schema, phase, scanning, progressLabel, dbResults,
                 authResults, functionResults, abortRef, rb, tasks, abortedAt,
                 err, cls, provider>>

\* The reply of one bucket listing arrives.
StorageListSettles(reply) ==
  /\ pc = "in_storage"
  /\ frame.step = "list"
  /\ reply \in ListReplies(frame.buckets[frame.i + 1].name)
  /\ StorageLoop(frame.i + 1, frame.buckets,
                 Append(frame.results, ListRow(frame.buckets[frame.i + 1], reply)),
                 CalculateProgress(config, "storage", frame.i + 1, Len(frame.buckets)))
  /\ UNCHANGED <<config, schema, phase, scanning, progressLabel, dbResults,
                 authResults, functionResults, abortRef, rb, tasks, abortedAt,
                 err, cls, provider>>

(***************************************************************************)
(* The auth phase.                                                         *)
(***************************************************************************)
WordDisabled     == <<"d","i","s","a","b","l","e","d">>
WordNotAllowed   == <<"n","o","t"," ","a","l","l","o","w","e","d">>
WordNotAvailable == <<"s","i","g","n","u","p"," ","i","s"," ","n","o","t"," ","a","v","a","i","l","a","b","l","e">>

\* A plausible slip: any successful signUp counts as open registration.
SignUpRowTrusting(reply) ==
  IF reply.kind = "data"
  THEN [feature |-> "Email Signup", status |-> "enabled", details |-> "Account created"]
  ELSE IF reply.kind = "throw"
  THEN [feature |-> "Email Signup", status |-> "error", details |-> "thrown message"]
  ELSE LET msg == ToLowerCase(CoalesceMessage(reply.msg, <<>>))
       IN IF \/ Includes(msg, WordDisabled)
             \/ Includes(msg, WordNotAllowed)
             \/ Includes(msg, WordNotAvailable)
          THEN [feature |-> "Email Signup", status |-> "disabled", details |-> "message"]
          ELSE [feature |-> "Email Signup", status |-> "error", details |-> "message"]

\* The AuthResult of the signUp probe.
SignUpRow(reply) ==
  LET msg == ToLowerCase(CoalesceMessage(reply.msg, <<>>))
  IN IF reply.kind = "throw"
     THEN [feature |-> "Email Signup", status |-> "error", details |-> "thrown message"]
     ELSE IF reply.kind = "error"
     THEN IF \/ Includes(msg, WordDisabled)
             \/ Includes(msg, WordNotAllowed)
             \/ Includes(msg, WordNotAvailable)
          THEN [feature |-> "Email Signup", status |-> "disabled", details |-> "message"]
          ELSE [feature |-> "Email Signup", status |-> "error", details |-> "message"]
     ELSE IF reply.user
          THEN [feature |-> "Email Signup", status |-> "enabled",
                details |-> "Account created"]
          ELSE [feature |-> "Email Signup", status |-> "disabled",
                details |-> "Signup returned no user (may require email confirmation)"]

\* The AuthResult of the signInAnonymously probe.
AnonRow(reply) ==
  LET msg == ToLowerCase(CoalesceMessage(reply.msg, <<>>))
  IN IF reply.kind = "throw"
     THEN [feature |-> "Anonymous Auth", status |-> "error", details |-> "thrown message"]
     ELSE IF reply.kind = "error"
     THEN IF Includes(msg, WordDisabled) \/ Includes(msg, WordNotAllowed)
          THEN [feature |-> "Anonymous Auth", status |-> "disabled", details |-> "message"]
          ELSE [feature |-> "Anonymous Auth", status |-> "error", details |-> "message"]
     ELSE IF reply.user
          THEN [feature |-> "Anonymous Auth", status |-> "enabled",
                details |-> "Anonymous sessions are enabled"]
          ELSE [feature |-> "Anonymous Auth", status |-> "disabled",
                details |-> "No session returned"]

IsEnabled(r) == r.status = "enabled"

\* "if (config.authProbing) await runAuthProbing()", up to signUp().
EnterAuth ==
  /\ pc = "if_auth"
  /\ IF RunsPhase(config, "auth")
     THEN /\ phase' = "auth"
          /\ progressLabel' = "Auth Probing"
          /\ frame' = [fn |-> "auth", step |-> "signUp", results |-> <<>>]
          /\ issued' = issued \cup {<<"signUp", "">>}
          /\ pc' = "in_auth"
     ELSE /\ pc' = "if_functions"
          /\ UNCHANGED <<phase, progressLabel, frame, issued>>
  /\ UNCHANGED <<config, schema, scanning, progress, dbResults, storageResults,
                 authResults, functionResults, abortRef, logs, rb, tasks,
                 abortedAt, err, cls, provider>>

\* The signUp reply arrives; the anonymous probe is sent unless the scan was
\* aborted, and then the sign-out.
AuthSignUpSettles(reply) ==
  /\ pc = "in_auth"
  /\ frame.step = "signUp"
  /\ reply \in SignUpReplies
  /\ progress' = CalculateProgress(config, "auth", 50, 100)
  /\ IF ~abortRef
     THEN /\ frame' = [frame EXCEPT !.step = "anon",
                                    !.results = Append(@, SignUpRow(reply))]
          /\ issued' = issued \cup {<<"signInAnonymously", "">>}
     ELSE /\ frame' = [frame EXCEPT !.step = "signOut",
                                    !.results = Append(@, SignUpRow(reply))]
          /\ issued' = issued \cup {<<"signOut", "">>}
  /\ UNCHANGED <<config, schema, phase, scanning, progressLabel, dbResults,
                 storageResults, authResults, functionResults, abortRef, logs,
                 pc, rb, tasks, abortedAt, err, cls, provider>>

\* The signInAnonymously reply arrives; the sign-out is sent.
AuthAnonSettles(reply) ==
  /\ pc = "in_auth"
  /\ frame.step = "anon"
  /\ reply \in SignInAnonymouslyReplies
  /\ frame' = [frame EXCEPT !.step = "signOut",
                            !.results = Append(@, AnonRow(reply))]
  /\ issued' = issued \cup {<<"signOut", "">>}
  /\ UNCHANGED <<config, schema, phase, scanning, progress, progressLabel,
                 dbResults, storageResults, authResults, functionResults,
                 abortRef, logs, pc, rb, tasks, abortedAt, err, cls, provider>>

\* The sign-out settles, whichever way; the rows are published.  fault: a
\* statement of this stretch, which no try block covers, throws.
AuthSignOutSettles(reply, fault) ==
  /\ pc = "in_auth"
  /\ frame.step = "signOut"
  /\ reply \in SignOutReplies
  /\ frame' = NoFrame
  /\ IF fault
     THEN /\ Catch("unexpected", logs)
          /\ UNCHANGED <<authResults, progress>>
     ELSE /\ authResults' = frame.results
          /\ logs' = Append(logs,
               Log(IF Len(SelectSeq(frame.results, IsEnabled)) > 0 THEN "warning" ELSE "info",
                   "Auth"))
          /\ progress' = CalculateProgress(config, "auth", 1, 1)
          /\ pc' = "after_auth"
          /\ UNCHANGED <<phase, progressLabel, scanning, err>>
  /\ UNCHANGED <<config, schema, dbResults, storageResults, functionResults,
                 abortRef, rb, tasks, issued, abortedAt, cls, provider>>

(***************************************************************************)
(* The functions phase.                                                    *)
(***************************************************************************)
Word404      == <<"4","0","4">>
WordNotFound == <<"n","o","t"," ","f","o","u","n","d">>
WordRelay    == <<"r","e","l","a","y">>

\* A plausible slip: the relay's own failure is not read as a missing
\* function.
InvokeStatusNoRelay(reply) ==
  LET msg == ToLowerCase(CoalesceMessage(reply.msg, <<>>))
  IN IF reply.kind = "throw" THEN "error"
     ELSE IF reply.kind = "error"
     THEN IF Includes(msg, Word404) \/ Includes(msg, WordNotFound)
          THEN "not_found"
          ELSE "found"
     ELSE "found"

\* The status that the task of a function name returns.
InvokeStatus(reply) ==
  LET msg == ToLowerCase(CoalesceMessage(reply.msg, <<>>))
  IN IF reply.kind = "throw" THEN "error"
     ELSE IF reply.kind = "error"
     THEN IF \/ Includes(msg, Word404)
             \/ Includes(msg, WordNotFound)
             \/ Includes(msg, WordRelay)
          THEN "not_found"
          ELSE "found"
     ELSE "found"

IsFound(r) == r.status = "found"

\* "if (config.edgeFunctions) await runEdgeFunctionDiscovery()", up to the
\* call of runInBatches.
EnterFunctions ==
  /\ pc = "if_functions"
  /\ IF RunsPhase(config, "functions")
     THEN /\ phase' = "functions"
          /\ progressLabel' = "Edge Function Discovery"
          /\ tasks' = [k \in 1..Len(CommonNames) |-> Task(CommonNames[k])]
          /\ rb' = [pc |-> "head", kind |-> "fn", i |-> 0,
                    w |-> config.concurrency, n |-> Len(CommonNames),
                    results |-> <<>>]
          /\ frame' = [fn |-> "functions"]
          /\ pc' = "in_functions"
     ELSE /\ pc' = "complete"
          /\ UNCHANGED <<phase, progressLabel, tasks, rb, frame>>
  /\ UNCHANGED <<config, schema, scanning, progress, dbResults, storageResults,
                 authResults, functionResults, abortRef, logs, issued,
                 abortedAt, err, cls, provider>>

\* The reply of invoke(name) arrives; the task returns its row.
FnInvokeSettles(t, reply) ==
  /\ rb.kind = "fn"
  /\ tasks[t].status = "run"
  /\ tasks[t].step = "invoke"
  /\ reply \in InvokeReplies(tasks[t].name)
  /\ tasks' = [tasks EXCEPT ![t] =
       [@ EXCEPT !.status = "fulfilled", !.step = "none",
                 !.out = [name |-> tasks[t].name, status |-> InvokeStatus(reply)]]]
  /\ UNCHANGED <<config, schema, phase, scanning, progress, progressLabel,
                 dbResults, storageResults, authResults, functionResults,
                 abortRef, logs, pc, frame, rb, issued, abortedAt, err, cls, provider>>

\* runEdgeFunctionDiscovery after runInBatches has returned.  fault: a
\* statement of this stretch, which no try block covers, throws.
FnFinish(fault) ==
  /\ pc = "in_functions"
  /\ rb.pc = "returned"
  /\ rb' = NoCall
  /\ tasks' = <<>>
  /\ frame' = NoFrame
  /\ IF fault
     THEN /\ Catch("unexpected", logs)
          /\ UNCHANGED <<functionResults, progress>>
     ELSE LET results == SelectSeq(rb.results, HasName)
          IN /\ functionResults' = results
             /\ logs' = Append(logs,
                  Log(IF Len(SelectSeq(results, IsFound)) > 0 THEN "success" ELSE "info",
                      "Edge Functions"))
             /\ progress' = CalculateProgress(config, "functions", 1, 1)
             /\ pc' = "after_functions"
             /\ UNCHANGED <<phase, progressLabel, scanning, err>>
  /\ UNCHANGED <<config, schema, dbResults, storageResults, authResults,
                 abortRef, issued, abortedAt, cls, provider>>

(***************************************************************************)
(* The scanner.                                                            *)
(***************************************************************************)
\* The component mounted on a connected client, with the configuration the
\* user has set (the inputs are disabled while a scan runs).
Init ==
  /\ config \in Configs
  /\ schema \in {[tables |-> c, views |-> <<>>, functions |-> <<>>] : c \in Catalogues}
  /\ phase = "idle"
  /\ scanning = FALSE
  /\ progress = 0
  /\ progressLabel = ""
  /\ dbResults = <<>>
  /\ storageResults = <<>>
  /\ authResults = <<>>
  /\ functionResults = <<>>
  /\ abortRef = FALSE
  /\ logs = <<>>
  /\ pc = "idle"
  /\ frame = NoFrame
  /\ rb = NoCall
  /\ tasks = <<>>
  /\ issued = {}
  /\ abortedAt = NotAborted
  /\ err = "none"
  /\ provider = Connected
  /\ cls = NoCls

Next ==
  \/ StartScan
  \/ EnterDatabase
  \/ RbHead
  \/ RbCollect
  \/ \E t \in 1..Len(tasks) :
       \/ \E reply \in SelectReplies(tasks[t].name) : DbSelectSettles(t, reply)
       \/ \E reply \in InsertReplies(tasks[t].name) : DbInsertSettles(t, reply)
       \/ \E reply \in DeleteReplies(tasks[t].name) : DbDeleteSettles(t, reply)
       \/ \E reply \in InvokeReplies(tasks[t].name) : FnInvokeSettles(t, reply)
  \/ \E fault \in BOOLEAN : DbFinish(fault)
  \/ EnterStorage
  \/ \E reply \in ListBucketsReplies : StorageBucketsSettle(reply)
  \/ \E reply \in UNION {ListReplies(b.name) : b \in {Buckets[k] : k \in 1..Len(Buckets)}} :
       StorageListSettles(reply)
  \/ EnterAuth
  \/ \E reply \in SignUpReplies : AuthSignUpSettles(reply)
  \/ \E reply \in SignInAnonymouslyReplies : AuthAnonSettles(reply)
  \/ \E reply \in SignOutReplies, fault \in BOOLEAN : AuthSignOutSettles(reply, fault)
  \/ EnterFunctions
  \/ \E fault \in BOOLEAN : FnFinish(fault)
  \/ AbortCheck
  \/ Complete
  \/ HandleAbort

Spec == Init /\ [][Next]_vars

(***************************************************************************)
(* The phase engine: the claims C1, C2, C9, C10, checked under Spec.       *)
(***************************************************************************)
\* The place of a phase in the order of a scan.
PhaseRank(p) ==
  CASE p = "recon"     -> 1
    [] p = "database"  -> 2
    [] p = "storage"   -> 3
    [] p = "auth"      -> 4
    [] p = "functions" -> 5
    [] p = "complete"  -> 6
    [] OTHER           -> 0

OptionalPhases == {"database", "storage", "auth", "functions"}

\* The result list that a phase publishes.
ResultsOf(p) ==
  CASE p = "database"  -> dbResults
    [] p = "storage"   -> storageResults
    [] p = "auth"      -> authResults
    [] p = "functions" -> functionResults

\* The requests that a phase sends.
RequestsOf(p) ==
  CASE p = "database"  -> {"select", "insert", "delete"}
    [] p = "storage"   -> {"listBuckets", "list"}
    [] p = "auth"      -> {"signUp", "signInAnonymously", "signOut"}
    [] p = "functions" -> {"invoke"}

\* C1: once handleAbort has run during phase X, the scan never moves to a
\* later phase: no row of a later phase is published and no request of a
\* later phase is sent, the phase is never complete, and when the scan has
\* ended the phase is idle and the outcome reported is the aborted one.
C1_AbortEndsScan ==
  abortedAt # NotAborted =>
    /\ phase \in {abortedAt.phase, "idle"}
    /\ phase # "complete"
    /\ \A q \in OptionalPhases :
         PhaseRank(q) > PhaseRank(abortedAt.phase) =>
           /\ ResultsOf(q) = <<>>
           /\ \A r \in issued : r[1] \notin RequestsOf(q)
    /\ ~scanning =>
         /\ phase = "idle"
         /\ progressLabel = "Scan Aborted"
         /\ logs[Len(logs)] = Log("warning", "AutoPwn scan aborted by user")

\* C1 happens: auth is the last enabled phase, the click came when both of
\* its probes had settled and only the sign-out was out, both rows are
\* published, and the scan has ended aborted.
C1_Witness ==
  /\ abortedAt = [phase |-> "auth", during |-> "signOut"]
  /\ ~config.edgeFunctions
  /\ ~scanning
  /\ Len(authResults) = 2
  /\ progressLabel = "Scan Aborted"

\* The sum of the weights of recon and of the enabled phases.
EnabledWeight ==
  5 + (IF config.databaseRls THEN 50 ELSE 0)
    + (IF config.storageScan THEN 20 ELSE 0)
    + (IF config.authProbing THEN 10 ELSE 0)
    + (IF config.edgeFunctions THEN 15 ELSE 0)

\* C2: a scan starts in recon; while it runs the phase only stays or moves
\* forward in the order recon, database, storage, auth, functions, and never
\* is a phase that the configuration disables; the scan ends in complete or
\* in idle.  A disabled phase has no weight in the progress total: after
\* recon the progress is 5 out of the weights of the enabled phases alone.
C2_PhasesInOrder ==
  /\ [](scanning =>
          /\ phase \in {"recon"} \cup OptionalPhases
          /\ phase \in OptionalPhases => config[
               CASE phase = "database" -> "databaseRls"
                 [] phase = "storage"  -> "storageScan"
                 [] phase = "auth"     -> "authProbing"
                 [] OTHER              -> "edgeFunctions"]
          /\ phase = "recon" =>
               progress = (2 * 500 + EnabledWeight) \div (2 * EnabledWeight))
  /\ [][/\ (~scanning /\ scanning') => phase' = "recon"
        /\ (scanning /\ scanning') =>
             phase' = phase \/ PhaseRank(phase') > PhaseRank(phase)
        /\ (scanning /\ ~scanning') => phase' \in {"complete", "idle"}
        /\ (~scanning /\ ~scanning') => phase' = phase]_vars

\* C2 happens: the scan is in the functions phase, having come from the
\* database phase past storage and auth, which are disabled.
C2_Witness ==
  /\ scanning
  /\ phase = "functions"
  /\ config.databaseRls
  /\ ~config.storageScan
  /\ ~config.authProbing
  /\ Len(dbResults) > 0

\* C9: with write testing disabled no INSERT and no DELETE (and no UPDATE)
\* request is sent, and every published database row has insert, update and
\* delete skipped.
C9_NoWritesWhenDisabled ==
  ~config.writeTesting =>
    /\ \A r \in issued : r[1] \notin {"insert", "update", "delete"}
    /\ \A k \in 1..Len(dbResults) :
         /\ dbResults[k].insert = "skipped"
         /\ dbResults[k].update = "skipped"
         /\ dbResults[k].delete = "skipped"

\* C9 happens: with write testing disabled, rows are published whose SELECT
\* verdicts differ.
C9_Witness ==
  /\ ~config.writeTesting
  /\ Len(dbResults) >= 2
  /\ dbResults[1].select = "allowed"
  /\ dbResults[2].select = "denied"

\* C10 as stated: a scan that has ended on an unexpected exception is idle
\* and reports the failed outcome, with an error entry in the log, whatever
\* the abort flag was when the exception was caught.
C10_AsStated ==
  (~scanning /\ err = "unexpected") =>
    /\ phase = "idle"
    /\ progressLabel = "Scan Failed"
    /\ logs[Len(logs)] = Log("error", "AutoPwn scan failed")

\* C11: with the configuration fixed, the progress is 0 before the first
\* scan, lies in 0..100 in every state, is 100 whenever the phase is
\* complete, and no step of a scan lowers it: only the reset at the start of
\* a scan takes it down.
C11_ProgressMonotone ==
  /\ [](/\ progress \in 0..100
        /\ phase = "complete" => progress = 100)
  /\ [][/\ config' = config
        /\ ~(~scanning /\ scanning') => progress' >= progress]_vars

\* C11 happens: a scan with database, storage and auth enabled has passed the
\* database phase and one bucket of two, with the progress strictly between
\* the value the database phase left and 100.
C11_Witness ==
  /\ scanning
  /\ phase = "storage"
  /\ config.databaseRls
  /\ config.authProbing
  /\ Len(dbResults) > 0
  /\ progress > CalculateProgress(config, "database", 1, 1)
  /\ progress < CalculateProgress(config, "storage", 1, 1)

(***************************************************************************)
(* The auth probes as functions of the reply: the claim C12, checked under *)
(* SpecAuthProbe.                                                          *)
(***************************************************************************)
\* The key words of the auth classifier, words that fall just short of one,
\* and a message that has nothing of them.
AuthMessageWords ==
  { WordDisabled, WordNotAllowed, WordNotAvailable,
    <<"d","i","s","a","b","l","e">>, <<"n","o","t"," ","a","l","l","o","w">>,
    <<"s","i","g","n","u","p"," ","i","s"," ","n","o","t">>, MsgRateLimit }

AuthMessages ==
  {NoMessage, <<>>} \cup
  { pre \o word :
      pre \in MessagePrefixes,
      word \in UNION {Spellings(w) : w \in AuthMessageWords} }

\* What signUp() and signInAnonymously() can deliver: user tells whether
\* data.user (data.session) is present.
AuthProbeReplies ==
  {[kind |-> "data", msg |-> NoMessage, user |-> u] : u \in BOOLEAN}
    \cup {[kind |-> k, msg |-> m, user |-> FALSE] : k \in {"error", "throw"}, m \in AuthMessages}

AuthProbes == {"signUp", "signInAnonymously"}

InitAuthProbe ==
  /\ ScanAtRest
  /\ abortRef = FALSE
  /\ rb = NoCall
  /\ tasks = <<>>
  /\ \E op \in AuthProbes, reply \in AuthProbeReplies :
       cls = [pc |-> "replied", op |-> op, reply |-> reply, verdict |-> Nullish]

\* The continuation of the awaited auth probe: the row pushed to results.
ClassifyAuth ==
  /\ cls.pc = "replied"
  /\ cls' = [cls EXCEPT !.pc = "classified",
                        !.verdict = IF cls.op = "signUp"
                                    THEN SignUpRow(cls.reply)
                                    ELSE AnonRow(cls.reply)]
  /\ UNCHANGED <<scanVars, abortRef, rb, tasks>>

SpecAuthProbe == InitAuthProbe /\ [][ClassifyAuth]_vars

\* The message holds a word that the probe op reads as "feature disabled".
HoldsDisabledWord(op, m) ==
  \/ HoldsWord(m, WordDisabled)
  \/ HoldsWord(m, WordNotAllowed)
  \/ op = "signUp" /\ HoldsWord(m, WordNotAvailable)

\* The status the claim gives to a reply, errors returned and errors thrown
\* alike.
StatedAuthStatus(op, reply) ==
  IF reply.kind = "data"
  THEN IF reply.user THEN "enabled" ELSE "disabled"
  ELSE IF HoldsDisabledWord(op, reply.msg) THEN "disabled" ELSE "error"

\* C12 as stated: every error whose message holds a key word gives disabled,
\* every other error gives error, a success gives enabled with a user
\* (session) and disabled with non-empty details without one.
C12_AsStated ==
  cls.pc = "classified" =>
    /\ cls.verdict.feature = IF cls.op = "signUp" THEN "Email Signup" ELSE "Anonymous Auth"
    /\ cls.verdict.status = StatedAuthStatus(cls.op, cls.reply)
    /\ (cls.reply.kind = "data" /\ ~cls.reply.user) => cls.verdict.details # ""

\* C12, amended: the rule holds for the error objects the probe returns; a
\* probe call that throws gives error whatever its message.
C12_AuthStatusRule ==
  cls.pc = "classified" =>
    /\ cls.verdict.feature = IF cls.op = "signUp" THEN "Email Signup" ELSE "Anonymous Auth"
    /\ cls.verdict.status =
         IF cls.reply.kind = "throw" THEN "error"
         ELSE StatedAuthStatus(cls.op, cls.reply)
    /\ (cls.reply.kind = "data" /\ ~cls.reply.user) => cls.verdict.details # ""

\* C12 happens: a registration that succeeded without a user was classified
\* as disabled.
C12_Witness ==
  /\ cls.pc = "classified"
  /\ cls.op = "signUp"
  /\ cls.reply.kind = "data"
  /\ ~cls.reply.user
  /\ cls.verdict = [feature |-> "Email Signup", status |-> "disabled",
                    details |-> "Signup returned no user (may require email confirmation)"]

(***************************************************************************)
(* The function probe as a function of the reply: the claim C13, checked   *)
(* under SpecInvoke.                                                       *)
(***************************************************************************)
InvokeMessageWords ==
  { Word404, WordNotFound, WordRelay,
    <<"4","0","3">>, <<"n","o","t"," ","f","o","u","n">>, <<"r","e","l","a","x">>,
    MsgUnauthorized }

InvokeMessages ==
  {NoMessage, <<>>} \cup
  { pre \o word \o suf :
      pre \in MessagePrefixes,
      word \in UNION {Spellings(w) : w \in InvokeMessageWords},
      suf \in MessageSuffixes }

\* What functions.invoke(name) can deliver.
InvokeProbeReplies ==
  {DataReply(0)}
    \cup {ErrorReply(Nullish, m) : m \in InvokeMessages}
    \cup {ThrowReply(m) : m \in InvokeMessages}

InitInvoke ==
  /\ ScanAtRest
  /\ abortRef = FALSE
  /\ rb = NoCall
  /\ tasks = <<>>
  /\ \E reply \in InvokeProbeReplies :
       cls = [pc |-> "replied", op |-> "invoke", reply |-> reply, verdict |-> Nullish]

\* The continuation of the awaited invoke: the status returned by the task.
ClassifyInvoke ==
  /\ cls.pc = "replied"
  /\ cls' = [cls EXCEPT !.pc = "classified", !.verdict = InvokeStatus(cls.reply)]
  /\ UNCHANGED <<scanVars, abortRef, rb, tasks>>

SpecInvoke == InitInvoke /\ [][ClassifyInvoke]_vars

\* The message tells that no function answers to the name.
HoldsMissingWord(m) ==
  \/ HoldsWord(m, Word404)
  \/ HoldsWord(m, WordNotFound)
  \/ HoldsWord(m, WordRelay)

\* C13 as stated: an error whose message holds "404", "not found" or "relay"
\* gives not_found, and every other response gives found.
C13_AsStated ==
  cls.pc = "classified" =>
    cls.verdict =
      IF cls.reply.kind # "data" /\ HoldsMissingWord(cls.reply.msg)
      THEN "not_found"
      ELSE "found"

\* C13, amended: the rule holds for a success and for the error objects that
\* invoke returns; an invoke call that throws gives error whatever its
\* message.
C13_InvokeStatusRule ==
  cls.pc = "classified" =>
    cls.verdict =
      IF cls.reply.kind = "throw" THEN "error"
      ELSE IF cls.reply.kind = "error" /\ HoldsMissingWord(cls.reply.msg)
      THEN "not_found"
      ELSE "found"

\* C13 happens: a returned error that speaks of the relay in capitals was
\* classified as not_found.
C13_Witness ==
  /\ cls.pc = "classified"
  /\ cls.op = "invoke"
  /\ cls.reply.kind = "error"
  /\ cls.reply.msg # NoMessage
  /\ Includes(cls.reply.msg, <<"R","E","L","A","Y">>)
  /\ cls.verdict = "not_found"

(***************************************************************************)
(* The connection provider: the catalogue (state.schema), the reducer's    *)
(* MERGE_SCHEMA and discoverTables.  The catalogue has the four fields of  *)
(* SchemaInfo; columns is a function from the keys of the object to the    *)
(* column lists.                                                           *)
(***************************************************************************)
\* The width of the waves of discoverTables.
batchSize == 10

\* The head of TABLE_WORDLIST.
TABLE_WORDLIST ==
  <<"users", "profiles", "accounts", "user_profiles", "user_roles", "roles",
    "permissions", "role_permissions", "user_permissions", "sessions", "tokens">>

\* The names typed into the wordlist box: none, or names split and trimmed.
CustomNames == { <<>>, <<"foo", "bar">>, <<"foo", "users", "foo">> }

\* An object without keys, as a function.
EmptyObject == [k \in {} |-> <<>>]

\* { ...a, ...b }: the keys of both, b's value where both have the key.
Spread(a, b) ==
  [k \in (DOMAIN a) \cup (DOMAIN b) |-> IF k \in DOMAIN b THEN b[k] ELSE a[k]]

\* The values of a row of a response, by what inferColumnType tells apart.
ValueKinds ==
  {"null", "integer", "fraction", "boolean", "timestamp text", "date text",
   "uuid text", "text", "array", "object"}

\* inferColumnType(value)
inferColumnType(value) ==
  CASE value = "null"           -> "text"
    [] value = "integer"        -> "integer"
    [] value = "fraction"       -> "double precision"
    [] value = "boolean"        -> "boolean"
    [] value = "timestamp text" -> "timestamptz"
    [] value = "date text"      -> "date"
    [] value = "uuid text"      -> "uuid"
    [] value = "text"           -> "text"
    [] value = "array"          -> "jsonb"
    [] value = "object"         -> "jsonb"
    [] OTHER                    -> "text"

\* Object.keys(data[0]).map(...): row is the list of <<key, value>> of data[0].
InferColumns(row) ==
  [k \in 1..Len(row) |->
     [name |-> row[k][1], type |-> inferColumnType(row[k][2]), required |-> FALSE]]

\* A schema document: paths as <<prefix, rest>>, definitions as
\* <<name, columns>> in the order of the object's keys.
Docs ==
  { [paths |-> <<>>, definitions |-> <<>>],
    [paths |-> <<<<"/", "users">>, <<"/rpc/", "whoami">>, <<"/", "">>>>,
     definitions |-> <<<<"users", <<[name |-> "id", type |-> "bigint", required |-> TRUE]>>>>>>],
    [paths |-> <<<<"/", "users">>>>,
     definitions |-> <<<<"users", <<[name |-> "id", type |-> "bigint", required |-> TRUE]>>>>,
                       <<"foo",   <<[name |-> "id", type |-> "uuid", required |-> TRUE]>>>>>>] }

IsTablePath(p) == p[1] # "/rpc/" /\ p[2] # ""
IsRpcPath(p) == p[1] = "/rpc/" /\ p[2] # ""
PathName(p) == p[2]
RpcOf(p) == [name |-> p[2], params |-> <<>>]

RECURSIVE MapSeq(_, _)
\* The names of the paths of a list, in order.
MapSeq(paths, kind) ==
  IF paths = <<>> THEN <<>>
  ELSE <<IF kind = "rpc" THEN RpcOf(paths[1]) ELSE PathName(paths[1])>>
         \o MapSeq(Tail(paths), kind)

\* parseOpenAPISpec(spec): tables from the paths, columns from the
\* definitions.
parseOpenAPISpec(doc) ==
  [tables    |-> MapSeq(SelectSeq(doc.paths, IsTablePath), "table"),
   views     |-> <<>>,
   functions |-> MapSeq(SelectSeq(doc.paths, IsRpcPath), "rpc"),
   columns   |-> [k \in {doc.definitions[j][1] : j \in 1..Len(doc.definitions)} |->
                    LET j == CHOOSE i \in 1..Len(doc.definitions) :
                               /\ doc.definitions[i][1] = k
                               /\ \A h \in (i + 1)..Len(doc.definitions) :
                                    doc.definitions[h][1] # k
                    IN doc.definitions[j][2]]]

\* The set of the elements of a list: new Set(list).
SetOf(list) == {list[k] : k \in 1..Len(list)}

\* initialState.schema: no catalogue.
NullSchema == [null |-> TRUE]

\* "state.schema?.tables ?? []" and the like.
TablesOf(sch)    == IF sch = NullSchema THEN <<>> ELSE sch.tables
ViewsOf(sch)     == IF sch = NullSchema THEN <<>> ELSE sch.views
FunctionsOf(sch) == IF sch = NullSchema THEN <<>> ELSE sch.functions
ColumnsOf(sch)   == IF sch = NullSchema THEN EmptyObject ELSE sch.columns

\* case "MERGE_SCHEMA" of the reducer.
MergeSchema(sch, payload) ==
  LET existing  == SetOf(TablesOf(sch))
      IsNew(t)  == t \notin existing
      newTables == SelectSeq(payload.tables, IsNew)
  IN [tables    |-> TablesOf(sch) \o newTables,
      views     |-> ViewsOf(sch),
      functions |-> FunctionsOf(sch),
      columns   |-> Spread(ColumnsOf(sch), payload.columns)]

\* What the probe of a candidate name can bring: the response of fetch with
\* its status and its body, or a rejection of fetch.
EmptyBody     == [kind |-> "empty", rows |-> <<>>]
JsonArray(rs) == [kind |-> "array", rows |-> rs]
OneRow        == <<<<"id", "integer">>, <<"email", "text">>>>

HttpOk(body)  == [ok |-> TRUE,  failed |-> FALSE, body |-> body]
HttpError     == [ok |-> FALSE, failed |-> FALSE, body |-> EmptyBody]
FetchFailed   == [ok |-> FALSE, failed |-> TRUE,  body |-> EmptyBody]

FetchReplies(table) ==
  CASE table = "foo"      -> {HttpOk(EmptyBody), HttpOk(JsonArray(<<>>)), HttpOk(JsonArray(<<OneRow>>))}
    [] table = "users"    -> {HttpOk(JsonArray(<<OneRow>>)), FetchFailed}
    [] table = "profiles" -> {HttpOk(JsonArray(<<>>))}
    [] table = "tokens"   -> {HttpOk(JsonArray(<<OneRow, OneRow>>))}
    [] OTHER              -> {HttpError}

\* The value a probe of discoverTables fulfils with: null, or { table, data }.
NullValue == [table |-> Nullish, data |-> EmptyBody]
Found(table, data) == [table |-> table, data |-> data]

\* The async function of batch.map, called for table: up to "await fetch".
StartProbe(table, existing) ==
  IF table \in existing
  THEN [name |-> table, status |-> "fulfilled", step |-> "none", out |-> NullValue]
  ELSE [name |-> table, status |-> "run", step |-> "fetch", out |-> NullValue]

\* The rest of that function, once fetch has settled with reply: res.json()
\* rejects on a body that is not JSON.
SettleProbe(task, reply) ==
  IF reply.failed
  THEN [task EXCEPT !.status = "rejected", !.step = "none"]
  ELSE IF ~reply.ok
  THEN [task EXCEPT !.status = "fulfilled", !.step = "none"]
  ELSE IF reply.body.kind = "empty"
  THEN [task EXCEPT !.status = "rejected", !.step = "none"]
  ELSE [task EXCEPT !.status = "fulfilled", !.step = "none",
                    !.out = Found(task.name, reply.body)]

\* wordlist.slice(i, i + batchSize) mapped to its promises.
StartBatch(wordlist, i, existing) ==
  [k \in 1..(Min(i + batchSize, Len(wordlist)) - i) |->
     StartProbe(wordlist[i + k], existing)]

\* "r.status === "fulfilled" && r.value"
IsHit(task) == task.status = "fulfilled" /\ task.out # NullValue

HasRows(data) == data.kind = "array" /\ Len(data.rows) > 0

RECURSIVE CollectBatch(_, _)
\* "for (const r of results)": discovered, columns and the log entries after
\* the results ts, starting from acc.
CollectBatch(ts, acc) ==
  IF ts = <<>> THEN acc
  ELSE LET r == ts[1]
           next ==
             IF ~IsHit(r) THEN acc
             ELSE [discovered |-> Append(acc.discovered, r.out.table),
                   columns |->
                     IF HasRows(r.out.data)
                     THEN Spread(acc.columns,
                                 [k \in {r.out.table} |-> InferColumns(r.out.data.rows[1])])
                     ELSE acc.columns,
                   logs |->
                     Append(acc.logs,
                            Log("success",
                                IF HasRows(r.out.data)
                                THEN <<"Found", r.out.table, "rows visible">>
                                ELSE <<"Found", r.out.table, "empty or RLS blocked">>))]
       IN CollectBatch(Tail(ts), next)

\* The wordlist of a call of discoverTables(customNames).
Wordlist(customNames) ==
  IF Len(customNames) > 0
  THEN Dedupe(customNames \o TABLE_WORDLIST)
  ELSE TABLE_WORDLIST

IsBruteforceStart(entry) == entry.msg = <<"Bruteforcing table names">>

\* discoverTables(customNames), up to its first await: the button that calls
\* it is disabled while a call is running.
DiscoverTables(customNames) ==
  /\ provider.projectUrl # ""
  /\ frame.fn = "none" \/ (frame.fn = "discoverTables" /\ frame.pc = "returned")
  /\ Len(SelectSeq(logs, IsBruteforceStart)) < MaxDiscoveries
  /\ LET wordlist == Wordlist(customNames)
         existing == SetOf(TablesOf(schema))
     IN /\ frame' = [fn |-> "discoverTables", pc |-> "await",
                     projectUrl |-> provider.projectUrl,
                     wordlist |-> wordlist, existing |-> existing, i |-> 0,
                     discovered |-> <<>>, columns |-> EmptyObject,
                     before |-> schema, seen |-> {}]
        /\ tasks' = StartBatch(wordlist, 0, existing)
        /\ logs' = Append(logs, Log("info", <<"Bruteforcing table names">>))
  /\ UNCHANGED <<config, schema, phase, scanning, progress, progressLabel,
                 dbResults, storageResults, authResults, functionResults,
                 abortRef, pc, rb, issued, abortedAt, err, cls, provider>>

\* The fetch of a probe settles, and its task runs to its end.
FetchSettles(t, reply) ==
  /\ frame.fn = "discoverTables"
  /\ frame.pc = "await"
  /\ tasks[t].status = "run"
  /\ tasks' = [tasks EXCEPT ![t] = SettleProbe(@, reply)]
  /\ frame' = [frame EXCEPT !.seen = @ \cup {<<tasks[t].name, reply>>}]
  /\ UNCHANGED <<config, schema, phase, scanning, progress, progressLabel,
                 dbResults, storageResults, authResults, functionResults,
                 abortRef, logs, pc, rb, issued, abortedAt, err, cls, provider>>

\* The continuation of "await Promise.allSettled(...)" in discoverTables:
\* the results are collected, then the next wave is started or, after the
\* last one, the names found are merged into the catalogue.
DiscoverCollect ==
  /\ frame.fn = "discoverTables"
  /\ frame.pc = "await"
  /\ PromiseAllSettled(tasks, 1..Len(tasks)) = "fulfilled"
  /\ LET acc == CollectBatch(tasks, [discovered |-> frame.discovered,
                                     columns |-> frame.columns,
                                     logs |-> logs])
         i   == frame.i + batchSize
     IN IF i < Len(frame.wordlist)
        THEN /\ frame' = [frame EXCEPT !.i = i,
                                       !.discovered = acc.discovered,
                                       !.columns = acc.columns]
             /\ tasks' = StartBatch(frame.wordlist, i, frame.existing)
             /\ logs' = acc.logs
             /\ UNCHANGED schema
        ELSE /\ frame' = [frame EXCEPT !.pc = "returned", !.i = i,
                                       !.discovered = acc.discovered,
                                       !.columns = acc.columns,
                                       !.before = schema]
             /\ tasks' = <<>>
             /\ schema' = IF Len(acc.discovered) > 0
                          THEN MergeSchema(schema, [tables |-> acc.discovered,
                                                    columns |-> acc.columns])
                          ELSE schema
             /\ logs' = Append(acc.logs, Log("info", <<"Bruteforce complete">>))
  /\ UNCHANGED <<config, phase, scanning, progress, progressLabel,
                 dbResults, storageResults, authResults, functionResults,
                 abortRef, pc, rb, issued, abortedAt, err, cls, provider>>

\* The provider connected: the catalogue built from the schema document that
\* the project served (an empty one when it served none).
InitDiscover ==
  /\ config = DefaultConfig
  /\ schema \in {parseOpenAPISpec(doc) : doc \in Docs}
  /\ phase = "idle"
  /\ scanning = FALSE
  /\ progress = 0
  /\ progressLabel = ""
  /\ dbResults = <<>>
  /\ storageResults = <<>>
  /\ authResults = <<>>
  /\ functionResults = <<>>
  /\ abortRef = FALSE
  /\ logs = <<>>
  /\ pc = "idle"
  /\ frame = NoFrame
  /\ rb = NoCall
  /\ tasks = <<>>
  /\ issued = {}
  /\ abortedAt = NotAborted
  /\ err = "none"
  /\ provider = Connected
  /\ cls = NoCls

NextDiscover ==
  \/ \E customNames \in CustomNames : DiscoverTables(customNames)
  \/ \E t \in 1..Len(tasks) :
       \E reply \in FetchReplies(tasks[t].name) : FetchSettles(t, reply)
  \/ DiscoverCollect

SpecDiscover == InitDiscover /\ [][NextDiscover]_vars

(***************************************************************************)
(* Bruteforce discovery: the claims C14 and C15, checked under             *)
(* SpecDiscover.                                                           *)
(***************************************************************************)
\* The reply that the probe of name received in the call that has returned.
ReplyOf(name) == CHOOSE reply \in {s[2] : s \in {x \in frame.seen : x[1] = name}} : TRUE

Probed(name) == \E s \in frame.seen : s[1] = name

\* C14: when a call of discoverTables has returned, every candidate name
\* that was not in the catalogue is in it now if and only if its probe
\* received an HTTP success status, whatever the body.
C14_AsStated ==
  (frame.fn = "discoverTables" /\ frame.pc = "returned") =>
    \A k \in 1..Len(frame.wordlist) :
      LET name == frame.wordlist[k]
      IN name \notin frame.existing =>
           /\ Probed(name)
           /\ (name \in SetOf(schema.tables)) <=> ReplyOf(name).ok

\* The place of x in list, 0 when it is not in it.
IndexOf(list, x) ==
  IF \E k \in 1..Len(list) : list[k] = x
  THEN CHOOSE k \in 1..Len(list) : list[k] = x /\ \A j \in 1..(k - 1) : list[j] # x
  ELSE 0

\* Every element of old is in new, and in the same relative order.
KeepsOrder(old, new) ==
  /\ \A k \in 1..Len(old) : IndexOf(new, old[k]) > 0
  /\ \A j, k \in 1..Len(old) :
       j < k => IndexOf(new, old[j]) < IndexOf(new, old[k])

NoDuplicate(list) ==
  \A j, k \in 1..Len(list) : list[j] = list[k] => j = k

\* C15: after the merge of a call of discoverTables, every table name and
\* every function that the catalogue had before is still there in the same
\* relative order, every columns entry it had is still there with the same
\* value, and no table name is there twice.
C15_AsStated ==
  (frame.fn = "discoverTables" /\ frame.pc = "returned") =>
    /\ KeepsOrder(frame.before.tables, schema.tables)
    /\ KeepsOrder(frame.before.functions, schema.functions)
    /\ \A k \in DOMAIN frame.before.columns :
         /\ k \in DOMAIN schema.columns
         /\ schema.columns[k] = frame.before.columns[k]
    /\ NoDuplicate(frame.before.tables) => NoDuplicate(schema.tables)

(***************************************************************************)
(* The phase engine: the claims C16, C17, C19, C20, checked under Spec.    *)
(***************************************************************************)
OnlyDatabase ==
  /\ config.databaseRls
  /\ ~config.storageScan
  /\ ~config.authProbing
  /\ ~config.edgeFunctions

\* C16 as stated: a scan with the database phase alone that has come to
\* complete has a non-empty database list and empty storage, auth and
\* function lists.
C16_AsStated ==
  (phase = "complete" /\ OnlyDatabase) =>
    /\ dbResults # <<>>
    /\ storageResults = <<>>
    /\ authResults = <<>>
    /\ functionResults = <<>>

\* C16, amended: such a scan has empty storage, auth and function lists, and
\* one database row for each resource name; its database list is non-empty
\* when there is a resource name at all (a catalogue table or an extra name).
C16_DatabaseOnly ==
  (phase = "complete" /\ OnlyDatabase) =>
    /\ Len(dbResults) = Len(AllTables(config, schema))
    /\ AllTables(config, schema) # <<>> => dbResults # <<>>
    /\ storageResults = <<>>
    /\ authResults = <<>>
    /\ functionResults = <<>>

\* C16 happens: a scan with the database phase alone is complete, with the
\* rows of two catalogue tables and one extra name.
C16_Witness ==
  /\ phase = "complete"
  /\ OnlyDatabase
  /\ Len(dbResults) = 3
  /\ dbResults[3].name = "orders"

InsertAllowed(r) == r.insert = "allowed"

\* A plausible slip: the writable count is taken from the SELECT verdicts.
summaryWritableFromSelect ==
  [tablesReadable  |-> Len(SelectSeq(dbResults, SelectAllowed)),
   totalTables     |-> Len(dbResults),
   tablesWritable  |-> Len(SelectSeq(dbResults, SelectAllowed)),
   bucketsFound    |-> Len(storageResults),
   bucketsPublic   |-> Len(SelectSeq(storageResults, IsPublic)),
   bucketsListable |-> Len(SelectSeq(storageResults, IsListable)),
   authEnabled     |-> Len(SelectSeq(authResults, IsEnabled)),
   authTotal       |-> Len(authResults),
   functionsFound  |-> Len(SelectSeq(functionResults, IsFound)),
   functionsTotal  |-> Len(functionResults)]

\* const summary = { ... }, computed at every render from the four lists.
summary ==
  [tablesReadable  |-> Len(SelectSeq(dbResults, SelectAllowed)),
   totalTables     |-> Len(dbResults),
   tablesWritable  |-> Len(SelectSeq(dbResults, InsertAllowed)),
   bucketsFound    |-> Len(storageResults),
   bucketsPublic   |-> Len(SelectSeq(storageResults, IsPublic)),
   bucketsListable |-> Len(SelectSeq(storageResults, IsListable)),
   authEnabled     |-> Len(SelectSeq(authResults, IsEnabled)),
   authTotal       |-> Len(authResults),
   functionsFound  |-> Len(SelectSeq(functionResults, IsFound)),
   functionsTotal  |-> Len(functionResults)]

\* The number of rows of list whose field has the value.
CountRows(list, field, value) ==
  Cardinality({k \in 1..Len(list) : list[k][field] = value})

\* C17: in every state the summary is the reduction of the four result
\* lists as they stand: the counts of rows with select allowed, with insert
\* allowed, flagged public, with listable allowed, with status enabled and
\* with status found, and the lengths of the lists; no count exceeds its
\* total.
C17_SummaryIsReduction ==
  /\ summary.tablesReadable = CountRows(dbResults, "select", "allowed")
  /\ summary.totalTables = Len(dbResults)
  /\ summary.tablesWritable = CountRows(dbResults, "insert", "allowed")
  /\ summary.bucketsFound = Len(storageResults)
  /\ summary.bucketsPublic = CountRows(storageResults, "public", TRUE)
  /\ summary.bucketsListable = CountRows(storageResults, "listable", "allowed")
  /\ summary.authEnabled = CountRows(authResults, "status", "enabled")
  /\ summary.authTotal = Len(authResults)
  /\ summary.functionsFound = CountRows(functionResults, "status", "found")
  /\ summary.functionsTotal = Len(functionResults)
  /\ summary.tablesReadable <= summary.totalTables
  /\ summary.tablesWritable <= summary.totalTables
  /\ summary.bucketsPublic <= summary.bucketsFound
  /\ summary.bucketsListable <= summary.bucketsFound
  /\ summary.authEnabled <= summary.authTotal
  /\ summary.functionsFound <= summary.functionsTotal

\* C17 happens: of the tables users and secrets the first is readable and
\* the second is not, write testing found one writable, and the summary
\* reads 1 of 2 readable and 1 writable.
C17_Witness ==
  /\ Len(dbResults) = 2
  /\ dbResults[1].name = "users" /\ dbResults[1].select = "allowed"
  /\ dbResults[2].name = "secrets" /\ dbResults[2].select = "denied"
  /\ dbResults[2].insert = "denied"
  /\ summary.tablesReadable = 1
  /\ summary.totalTables = 2
  /\ summary.tablesWritable = 1

(***************************************************************************)
(* detectKeyType.  A key is the text before its first "." (head) and the   *)
(* piece between the first and the second "." (middle), which is absent    *)
(* when the key has no ".".  A piece is told by the characters it is made  *)
(* of, by its length modulo 4 once the padding is taken off, and by the    *)
(* text that its sextets spell.                                            *)
(***************************************************************************)
PrefixPublishable == <<"s","b","_","p","u","b","l","i","s","h","a","b","l","e","_">>
PrefixSecret      == <<"s","b","_","s","e","c","r","e","t","_">>
JwtMarker         == <<"e","y","J">>

\* key.startsWith(prefix)
StartsWith(s, prefix) ==
  /\ Len(s) >= Len(prefix)
  /\ SubSeq(s, 1, Len(prefix)) = prefix

\* The texts that a piece can spell: no JSON, a JSON value that is not an
\* object, or an object with its role member (Nullish when it has none).
NotJson          == [json |-> FALSE, kind |-> "none",   role |-> Nullish]
JsonValue(kind)  == [json |-> TRUE,  kind |-> kind,     role |-> Nullish]
JsonObject(role) == [json |-> TRUE,  kind |-> "object", role |-> role]

PayloadTexts ==
  {NotJson}
    \cup {JsonValue(k) : k \in {"null", "number", "string", "array"}}
    \cup {JsonObject(r) : r \in {Nullish, "service_role", "anon", "authenticated", "ANON"}}

\* The characters of a piece: letters and digits only; with "+" or "/";
\* with "-" or "_"; with a character of neither alphabet.
PieceChars == {"common", "standard", "urlsafe", "other"}

Pieces == [chars : PieceChars, rem : 0..3, text : PayloadTexts]

\* key.split(".")[1] of a key without ".": undefined, which atob reads as the
\* nine letters of "undefined".
NoPiece == [chars |-> "common", rem |-> 1, text |-> NotJson]

KeyHeads ==
  { <<>>, <<"e","y">>, JwtMarker, JwtMarker \o <<"h","b">>, <<"x">> \o JwtMarker,
    PrefixPublishable, PrefixPublishable \o JwtMarker,
    PrefixSecret, PrefixSecret \o <<"k">>,
    <<"s","b","_","s","e","c","r","e","t">>,
    <<"S","B","_","S","E","C","R","E","T","_">> }

Keys == [head : KeyHeads, middle : Pieces \cup {NoPiece}]

Threw == [threw |-> TRUE, value |-> NotJson]
Returned(v) == [threw |-> FALSE, value |-> v]

\* atob(piece): throws on a character outside the standard alphabet and on
\* a length that leaves one character over.
atob(piece) ==
  IF piece.chars \in {"common", "standard"} /\ piece.rem # 1
  THEN Returned(piece.text)
  ELSE Threw

\* JSON.parse(text)
JSONparse(text) == IF text.json THEN Returned(text) ELSE Threw

\* payload.role: throws on null.
RoleOf(payload) == IF payload.kind = "null" THEN Threw ELSE Returned(payload.role)

\* The try block of detectKeyType up to the comparisons of payload.role.
PayloadRole(key) ==
  LET decoded == atob(key.middle)
  IN IF decoded.threw THEN Threw
     ELSE LET payload == JSONparse(decoded.value)
          IN IF payload.threw THEN Threw ELSE RoleOf(payload.value)

\* try { ... } catch { /* not a valid JWT */ }
TryCatch(outcome) == IF outcome.threw THEN Returned(Nullish) ELSE outcome

\* detectKeyType(key): the class returned, or "throws".
detectKeyType(key) ==
  IF StartsWith(key.head, PrefixPublishable) THEN "publishable"
  ELSE IF StartsWith(key.head, PrefixSecret) THEN "secret"
  ELSE IF StartsWith(key.head, JwtMarker)
  THEN LET role == TryCatch(PayloadRole(key))
       IN IF role.threw THEN "throws"
          ELSE IF role.value = "service_role" THEN "service_role"
          ELSE IF role.value = "anon" THEN "anon"
          ELSE "unknown"
  ELSE "unknown"

InitKey ==
  /\ ScanAtRest
  /\ abortRef = FALSE
  /\ rb = NoCall
  /\ tasks = <<>>
  /\ \E key \in Keys :
       cls = [pc |-> "replied", op |-> "detectKeyType", reply |-> key, verdict |-> Nullish]

\* detectKeyType is called on the key.
ClassifyKey ==
  /\ cls.pc = "replied"
  /\ cls' = [cls EXCEPT !.pc = "classified", !.verdict = detectKeyType(cls.reply)]
  /\ UNCHANGED <<scanVars, abortRef, rb, tasks>>

SpecKey == InitKey /\ [][ClassifyKey]_vars

(***************************************************************************)
(* detectKeyType: the claim C18, checked under SpecKey.                    *)
(***************************************************************************)
\* The role member of the payload of a JWT: its middle piece is base64 text,
\* in the URL-safe alphabet of a JWT ("-", "_") or in the standard one
\* ("+", "/"), that spells a JSON object.
JwtRole(key) ==
  IF /\ key.middle # NoPiece
     /\ key.middle.chars \in {"common", "standard", "urlsafe"}
     /\ key.middle.rem # 1
     /\ key.middle.text.json
     /\ key.middle.text.kind = "object"
  THEN key.middle.text.role
  ELSE Nullish

\* C18 as stated: detectKeyType never throws; a key with the prefix
\* sb_publishable_ is publishable and one with sb_secret_ is secret, whatever
\* follows; a key with the marker eyJ whose decoded middle piece has the role
\* service_role or anon is of that class; every other key is unknown.
C18_AsStated ==
  cls.pc = "classified" =>
    /\ cls.verdict # "throws"
    /\ cls.verdict =
         IF StartsWith(cls.reply.head, PrefixPublishable) THEN "publishable"
         ELSE IF StartsWith(cls.reply.head, PrefixSecret) THEN "secret"
         ELSE IF /\ StartsWith(cls.reply.head, JwtMarker)
                 /\ JwtRole(cls.reply) \in {"service_role", "anon"}
         THEN JwtRole(cls.reply)
         ELSE "unknown"

\* The requests that probe a resource or a feature.
ProbeRequests ==
  {"select", "insert", "delete", "list", "signUp", "signInAnonymously", "invoke"}

\* The result row of the resource of request r holds the outcome of r.
RowRecords(r) ==
  CASE r[1] \in {"select", "insert", "delete"} ->
         \E k \in 1..Len(dbResults) :
           /\ dbResults[k].name = r[2]
           /\ dbResults[k][r[1]] \in {"allowed", "denied", "error"}
    [] r[1] = "list" ->
         \E k \in 1..Len(storageResults) :
           /\ storageResults[k].name = r[2]
           /\ storageResults[k].listable \in {"allowed", "denied", "error"}
    [] r[1] = "signUp" ->
         \E k \in 1..Len(authResults) : authResults[k].feature = "Email Signup"
    [] r[1] = "signInAnonymously" ->
         \E k \in 1..Len(authResults) : authResults[k].feature = "Anonymous Auth"
    [] r[1] = "invoke" ->
         \E k \in 1..Len(functionResults) :
           /\ functionResults[k].name = r[2]
           /\ functionResults[k].status \in {"found", "not_found", "error"}

\* An entry of the activity log is an entry for the probe r: addLog is
\* called with a type and a message, and an entry for a probe carries the
\* probe.
LogRecords(entry, r) == "probe" \in DOMAIN entry /\ entry.probe = r

\* C19: when a scan is complete, the outcome of every probe that it issued
\* is in the result row of the probe's resource and in at least one entry of
\* the activity log for that probe.
C19_AsStated ==
  phase = "complete" =>
    \A r \in issued :
      r[1] \in ProbeRequests =>
        /\ RowRecords(r)
        /\ \E k \in 1..Len(logs) : LogRecords(logs[k], r)

\* C20: no UPDATE request is ever sent, and every published database row
\* has update skipped, with write testing disabled and with it enabled.
C20_AsStated ==
  /\ \A r \in issued : r[1] # "update"
  /\ \A k \in 1..Len(dbResults) : dbResults[k].update = "skipped"

(***************************************************************************)
(* The phase engine: the claims C21, C23, C26, C29, checked under Spec.    *)
(***************************************************************************)
\* C21: when a scan has been ended by the abort check, every row collected
\* up to then is published: a database row with its SELECT verdict for every
\* resource whose SELECT was sent, a storage row for every bucket whose
\* listing was sent, and the Email Signup row first in the auth list when
\* the registration probe was sent.
C21_CollectedRowsPublished ==
  (~scanning /\ err = "Aborted") =>
    \A r \in issued :
      /\ r[1] = "select" =>
           \E k \in 1..Len(dbResults) :
             /\ dbResults[k].name = r[2]
             /\ dbResults[k].select \in {"allowed", "denied", "error"}
      /\ r[1] = "list" =>
           \E k \in 1..Len(storageResults) :
             /\ storageResults[k].name = r[2]
             /\ storageResults[k].listable \in {"allowed", "denied", "error"}
      /\ r[1] = "signUp" =>
           /\ Len(authResults) >= 1
           /\ authResults[1].feature = "Email Signup"

\* C21 happens: the click came while the first of two buckets was being
\* listed, after the database phase had published its rows; the scan has
\* ended aborted with the rows of the database and of that one bucket.
C21_Witness ==
  /\ ~scanning
  /\ err = "Aborted"
  /\ abortedAt = [phase |-> "storage", during |-> "list"]
  /\ Len(storageResults) = 1
  /\ Len(dbResults) >= 2

(***************************************************************************)
(* The listing classifier of the storage phase on its own: one listing of  *)
(* one bucket, drawn from every reply the classifier tells apart.          *)
(***************************************************************************)
ListingReplies == ProbeReplies \cup {DataReply(3)}

InitListing ==
  /\ ScanAtRest
  /\ abortRef = FALSE
  /\ rb = NoCall
  /\ tasks = <<>>
  /\ \E k \in 1..Len(Buckets), reply \in ListingReplies :
       cls = [pc |-> "replied", bucket |-> Buckets[k], reply |-> reply]

\* The continuation of "await client.storage.from(bucket.name).list(...)":
\* the row of the bucket is filled in.
ClassifyListing ==
  /\ cls.pc = "replied"
  /\ cls' = [pc |-> "classified", bucket |-> cls.bucket, reply |-> cls.reply,
             row |-> ListRow(cls.bucket, cls.reply)]
  /\ UNCHANGED <<scanVars, abortRef, rb, tasks>>

SpecListing == InitListing /\ [][ClassifyListing]_vars

\* C22: the listable verdict of a bucket listing equals the verdict of the
\* database classifier for the same reply - denied for code 42501 or a
\* message holding denied, rls, permission or policy in any case, error
\* otherwise - and a listing without error is allowed with fileCount equal
\* to the number of objects returned.
C22_AsStated ==
  cls.pc = "classified" =>
    /\ cls.row.listable = SelectVerdict(cls.reply)
    /\ cls.reply.kind = "error" =>
         cls.row.listable =
           IF cls.reply.code = InsufficientPrivilege \/ HoldsKeyWord(cls.reply.msg)
           THEN "denied" ELSE "error"
    /\ cls.reply.kind = "data" =>
         /\ cls.row.listable = "allowed"
         /\ cls.row.fileCount = cls.reply.n

\* C23: an auth phase that has returned has sent one registration probe,
\* one anonymous-session probe and one sign-out, and has published exactly
\* two rows, "Email Signup" followed by "Anonymous Auth".
C23_AsStated ==
  pc = "after_auth" =>
    /\ {<<"signUp", "">>, <<"signInAnonymously", "">>, <<"signOut", "">>} \subseteq issued
    /\ Len(authResults) = 2
    /\ authResults[1].feature = "Email Signup"
    /\ authResults[2].feature = "Anonymous Auth"

(***************************************************************************)
(* The provider's connection: initialize, disconnect and discoverTables.   *)
(***************************************************************************)
\* "let schema = { tables: [], views: [], functions: [], columns: {} }"
EmptyCatalogue ==
  [tables |-> <<>>, views |-> <<>>, functions |-> <<>>, columns |-> EmptyObject]

\* What the request for the schema document can bring: the document, a
\* refusal, or a failure of the request.
SchemaReplies ==
  {[kind |-> "ok", doc |-> doc] : doc \in Docs}
    \cup {[kind |-> k, doc |-> [paths |-> <<>>, definitions |-> <<>>]] :
            k \in {"blocked", "failed"}}

\* initialize(projectUrl, apiKey), up to "await fetch": the form offers it
\* while no connection is initialized and no call of it is running.  Each
\* project is connected to once.
Initialize(projectUrl) ==
  /\ ~provider.initialized
  /\ provider.loading = ""
  /\ <<"initialize", projectUrl>> \notin issued
  /\ provider' = [provider EXCEPT !.loading = projectUrl]
  /\ issued' = issued \cup {<<"initialize", projectUrl>>}
  /\ UNCHANGED <<config, schema, phase, scanning, progress, progressLabel,
                 dbResults, storageResults, authResults, functionResults,
                 abortRef, logs, pc, frame, rb, tasks, abortedAt, err, cls>>

\* The rest of initialize, once the request for the schema document has
\* settled: the catalogue is built and INITIALIZE is dispatched.
InitializeSettles(reply) ==
  /\ provider.loading # ""
  /\ schema' = IF reply.kind = "ok" THEN parseOpenAPISpec(reply.doc)
               ELSE EmptyCatalogue
  /\ provider' = [initialized |-> TRUE, projectUrl |-> provider.loading,
                  loading |-> ""]
  /\ logs' = (IF reply.kind = "ok" THEN logs
              ELSE Append(logs, Log("warning", <<"Schema discovery", reply.kind>>)))
               \o <<Log("success", <<"Connected to", provider.loading>>)>>
  /\ UNCHANGED <<config, phase, scanning, progress, progressLabel,
                 dbResults, storageResults, authResults, functionResults,
                 abortRef, pc, frame, rb, tasks, issued, abortedAt, err, cls>>

\* disconnect(): case "DISCONNECT" of the reducer puts initialState back.
\* The form offers it while a connection is initialized.
Disconnect ==
  /\ provider.initialized
  /\ provider' = [Disconnected EXCEPT !.loading = provider.loading]
  /\ schema' = NullSchema
  /\ logs' = <<>>
  /\ UNCHANGED <<config, phase, scanning, progress, progressLabel,
                 dbResults, storageResults, authResults, functionResults,
                 abortRef, pc, frame, rb, tasks, issued, abortedAt, err, cls>>

\* The provider as it is mounted: initialState.
InitLifecycle ==
  /\ config = DefaultConfig
  /\ schema = NullSchema
  /\ phase = "idle"
  /\ scanning = FALSE
  /\ progress = 0
  /\ progressLabel = ""
  /\ dbResults = <<>>
  /\ storageResults = <<>>
  /\ authResults = <<>>
  /\ functionResults = <<>>
  /\ abortRef = FALSE
  /\ logs = <<>>
  /\ pc = "idle"
  /\ frame = NoFrame
  /\ rb = NoCall
  /\ tasks = <<>>
  /\ issued = {}
  /\ abortedAt = NotAborted
  /\ err = "none"
  /\ cls = NoCls
  /\ provider = Disconnected

NextLifecycle ==
  \/ \E projectUrl \in Projects : Initialize(projectUrl)
  \/ \E reply \in SchemaReplies : InitializeSettles(reply)
  \/ Disconnect
  \/ DiscoverTables(<<"foo", "bar">>)
  \/ \E t \in 1..Len(tasks) :
       \E reply \in FetchReplies(tasks[t].name) : FetchSettles(t, reply)
  \/ DiscoverCollect

SpecLifecycle == InitLifecycle /\ [][NextLifecycle]_vars

(***************************************************************************)
(* The catalogue: the claims C24 and C25.                                  *)
(***************************************************************************)
\* C24: every key of the catalogue's columns is one of its tables, after
\* the catalogue was built from a schema document and after every merge of
\* a bruteforce discovery.
C24_AsStated ==
  \A k \in DOMAIN schema.columns : k \in SetOf(schema.tables)

\* C25: the catalogue is absent whenever no connection is initialized, and
\* the merge of a discovery that was started on a connection other than the
\* present one leaves the catalogue as it is.
C25_AsStated ==
  [][/\ ~provider'.initialized => schema' = NullSchema
     /\ (/\ frame.fn = "discoverTables"
         /\ frame.pc = "await"
         /\ frame'.pc = "returned"
         /\ frame.projectUrl # provider.projectUrl) => schema' = schema]_vars

\* The calls that are awaited: those of the running tasks and the one the
\* storage or auth phase stands at.
Outstanding ==
  {tasks[t].step : t \in Running} \cup
  (IF pc \in {"in_storage", "in_auth"}
   THEN {IF frame.step = "anon" THEN "signInAnonymously" ELSE frame.step}
   ELSE {})

\* C26: requests of two phases are never outstanding together: every
\* outstanding request belongs to the phase that is running, a phase
\* function returns only when no request of its tasks is outstanding and
\* leaves none behind, and when a request is sent every request outstanding
\* before and after that step belongs to the phase of the request sent.
C26_PhasesNeverOverlap ==
  /\ [](\A op \in Outstanding :
          phase \in OptionalPhases /\ op \in RequestsOf(phase))
  /\ [][(pc \in {"in_database", "in_storage", "in_auth", "in_functions"} /\ pc' # pc)
          => (Running = {} /\ Outstanding' = {})]_vars
  /\ [][\A r \in issued' \ issued :
          \A op \in Outstanding \cup Outstanding' :
            \E p \in OptionalPhases : {op, r[1]} \subseteq RequestsOf(p)]_vars

\* C26 happens: the storage phase has sent its first request after a
\* database phase that sent write probes, and nothing else is outstanding.
C26_Witness ==
  /\ pc = "in_storage"
  /\ Outstanding = {"listBuckets"}
  /\ \E r \in issued : r[1] = "delete"
  /\ Len(dbResults) >= 2

(***************************************************************************)
(* The database phase over more names than one wave holds: SpecWaves.      *)
(***************************************************************************)
\* A catalogue of six tables: with the width at its lower bound of five the
\* phase takes two waves.
WaveCatalogue == <<"users", "secrets", "profiles", "posts", "items", "tokens">>

WaveConfigs ==
  [databaseRls : {TRUE}, storageScan : {FALSE}, authProbing : {FALSE},
   edgeFunctions : {FALSE}, concurrency : {MinConcurrency},
   writeTesting : BOOLEAN, customTables : CustomPieces]

InitWaves ==
  /\ config \in WaveConfigs
  /\ schema = [tables |-> WaveCatalogue, views |-> <<>>, functions |-> <<>>]
  /\ phase = "idle"
  /\ scanning = FALSE
  /\ progress = 0
  /\ progressLabel = ""
  /\ dbResults = <<>>
  /\ storageResults = <<>>
  /\ authResults = <<>>
  /\ functionResults = <<>>
  /\ abortRef = FALSE
  /\ logs = <<>>
  /\ pc = "idle"
  /\ frame = NoFrame
  /\ rb = NoCall
  /\ tasks = <<>>
  /\ issued = {}
  /\ abortedAt = NotAborted
  /\ err = "none"
  /\ cls = NoCls
  /\ provider = Connected

\* handleStartScan with the database phase alone enabled.
NextWaves ==
  \/ StartScan
  \/ EnterDatabase
  \/ RbHead
  \/ RbCollect
  \/ \E t \in 1..Len(tasks) :
       \/ \E reply \in SelectReplies(tasks[t].name) : DbSelectSettles(t, reply)
       \/ \E reply \in InsertReplies(tasks[t].name) : DbInsertSettles(t, reply)
       \/ \E reply \in DeleteReplies(tasks[t].name) : DbDeleteSettles(t, reply)
  \/ \E fault \in BOOLEAN : DbFinish(fault)
  \/ EnterStorage
  \/ EnterAuth
  \/ EnterFunctions
  \/ AbortCheck
  \/ Complete
  \/ HandleAbort

SpecWaves == InitWaves /\ [][NextWaves]_vars

Verdicts == {"allowed", "denied", "error"}

\* The row of resource name in the published database list is complete:
\* its SELECT verdict is computed and, with write testing, the INSERT and
\* the DELETE were sent and their verdicts are computed.
RowComplete(name) ==
  \E k \in 1..Len(dbResults) :
    /\ dbResults[k].name = name
    /\ dbResults[k].select \in Verdicts
    /\ IF config.writeTesting
       THEN /\ {<<"insert", name>>, <<"delete", name>>} \subseteq issued
            /\ dbResults[k].insert \in Verdicts
            /\ dbResults[k].delete \in Verdicts
       ELSE /\ dbResults[k].insert = "skipped"
            /\ dbResults[k].delete = "skipped"

\* C27: a task that was started goes through all of its probes whatever the
\* abort flag is: after its SELECT has settled its INSERT is sent (with write
\* testing), after its INSERT has settled, whatever the reply, its DELETE is
\* sent, it stays in flight until it has settled, and once the phase has
\* returned the row of every task that was started is published complete.
C27_WaveRunsToItsEnd ==
  /\ []((rb = NoCall /\ err # "unexpected") =>
          \A r \in issued : r[1] = "select" => RowComplete(r[2]))
  /\ [][\A t \in 1..Len(tasks) :
          (tasks[t].status = "run" /\ t \in DOMAIN tasks' /\ tasks'[t] # tasks[t]) =>
            CASE tasks[t].step = "select" ->
                   IF config.writeTesting
                   THEN /\ tasks'[t].step = "insert"
                        /\ tasks'[t].status = "run"
                        /\ <<"insert", tasks[t].name>> \in issued'
                   ELSE tasks'[t].status = "fulfilled"
              [] tasks[t].step = "insert" ->
                   /\ tasks'[t].step = "delete"
                   /\ tasks'[t].status = "run"
                   /\ <<"delete", tasks[t].name>> \in issued'
              [] tasks[t].step = "delete" ->
                   /\ tasks'[t].status = "fulfilled"
                   /\ tasks'[t].out.delete \in Verdicts]_vars
  /\ [][(\E t \in 1..Len(tasks) : tasks[t].status = "run") => Len(tasks') = Len(tasks)]_vars

\* C27 happens: with write testing, the click came while the first wave of a
\* list of seven names was in flight; the scan has ended aborted and the five
\* rows of that wave are published with their three verdicts.
C27_Witness ==
  /\ ~scanning
  /\ err = "Aborted"
  /\ config.writeTesting
  /\ abortedAt = [phase |-> "database", during |-> "wave"]
  /\ Len(AllTables(config, schema)) = 7
  /\ Len(dbResults) = 5
  /\ \A k \in 1..5 : dbResults[k].insert \in Verdicts /\ dbResults[k].delete \in Verdicts

\* C28: the published database list is a prefix of the deduplicated list L of
\* resource names, in order and without a duplicate; it is the whole of L at
\* the end of a scan that was not aborted, and a whole number of waves, at
\* least one, when the scan was aborted during the database phase.
C28_WholeWavesPublished ==
  LET L == AllTables(config, schema)
      W == config.concurrency
  IN /\ Len(dbResults) <= Len(L)
     /\ \A k \in 1..Len(dbResults) : dbResults[k].name = L[k]
     /\ \A j, k \in 1..Len(dbResults) :
          dbResults[j].name = dbResults[k].name => j = k
     /\ (phase = "complete" \/ (pc = "after_database" /\ ~abortRef)) =>
          Len(dbResults) = Len(L)
     /\ (abortedAt.phase = "database" /\ (pc = "after_database" \/ err = "Aborted")) =>
          \E k \in 1..Len(L) : Len(dbResults) = Min(k * W, Len(L))

\* C28 happens: the click came during the first wave of a list of seven
\* names: the five rows of that wave are published, in the order of the
\* list, and the two names left were never probed.
C28_Witness ==
  /\ ~scanning
  /\ err = "Aborted"
  /\ abortedAt.phase = "database"
  /\ Len(dbResults) = 5
  /\ dbResults[5].name = "items"
  /\ \A r \in issued : r[2] \notin {"tokens", "orders"}

\* C29: no task is ever called with the abort flag set: a task that is
\* called sends its first request in that same step instead of returning
\* through its abort branch, no database row is published with select error
\* and details "Aborted", and no outcome of a task carries them.
C29_TaskAbortBranchDead ==
  /\ [](\A k \in 1..Len(dbResults) :
          ~(dbResults[k].select = "error" /\ dbResults[k].details = "Aborted"))
  /\ [][\A t \in 1..Len(tasks) :
          (tasks[t].status = "new" /\ t \in DOMAIN tasks' /\ tasks'[t] # tasks[t]) =>
            /\ ~abortRef
            /\ tasks'[t].status = "run"
            /\ tasks'[t].step \in {"select", "invoke"}
            /\ <<tasks'[t].step, tasks[t].name>> \in issued']_vars

\* C29 happens: the click came during the first wave of the functions
\* phase; the second wave was never started, and the published rows are
\* those of the five tasks of the first wave.
C29_Witness ==
  /\ ~scanning
  /\ err = "Aborted"
  /\ abortedAt = [phase |-> "functions", during |-> "wave"]
  /\ Len(functionResults) = 5
  /\ \A r \in issued : r[1] = "invoke" => \E k \in 1..5 : functionResults[k].name = r[2]

(***************************************************************************)
(* Termination: every request settles and every continuation is run.       *)
(***************************************************************************)
\* The steps that the scan takes of its own accord: the replies of the
\* network and the continuations of the awaits.  Starting a scan and
\* clicking Abort are the user's steps.
Progress ==
  \/ EnterDatabase
  \/ RbHead
  \/ RbCollect
  \/ \E t \in 1..Len(tasks) :
       \/ \E reply \in SelectReplies(tasks[t].name) : DbSelectSettles(t, reply)
       \/ \E reply \in InsertReplies(tasks[t].name) : DbInsertSettles(t, reply)
       \/ \E reply \in DeleteReplies(tasks[t].name) : DbDeleteSettles(t, reply)
       \/ \E reply \in InvokeReplies(tasks[t].name) : FnInvokeSettles(t, reply)
  \/ \E fault \in BOOLEAN : DbFinish(fault)
  \/ EnterStorage
  \/ \E reply \in ListBucketsReplies : StorageBucketsSettle(reply)
  \/ \E reply \in UNION {ListReplies(b.name) : b \in {Buckets[k] : k \in 1..Len(Buckets)}} :
       StorageListSettles(reply)
  \/ EnterAuth
  \/ \E reply \in SignUpReplies : AuthSignUpSettles(reply)
  \/ \E reply \in SignInAnonymouslyReplies : AuthAnonSettles(reply)
  \/ \E reply \in SignOutReplies, fault \in BOOLEAN : AuthSignOutSettles(reply, fault)
  \/ EnterFunctions
  \/ \E fault \in BOOLEAN : FnFinish(fault)
  \/ AbortCheck
  \/ Complete

\* The scans of a catalogue of two tables without extra names: every set of
\* phases, with and without write testing.
InitLive ==
  /\ Init
  /\ config.customTables = <<>>
  /\ schema.tables # <<>>

\* The scanner, with every network call settling in the end.
SpecLive == InitLive /\ [][Next]_vars /\ WF_vars(Progress)

\* C30: every scan that was started ends: scanning becomes false, at that
\* step the phase is complete or idle and nothing of the scan is left
\* running, and scanning stays false until the next scan is started.
C30_ScanEnds ==
  /\ scanning ~> ~scanning
  /\ [][(scanning /\ ~scanning') => phase' \in {"complete", "idle"}]_vars
  /\ [](~scanning => (pc = "idle" /\ phase \in {"complete", "idle"} /\ ~InFlight))
  /\ [][(~scanning /\ scanning') => (pc = "idle" /\ phase' = "recon")]_vars

\* C30 happens: a scan of all four phases was aborted by a click during the
\* functions phase and has ended idle.
C30_Witness ==
  /\ ~scanning
  /\ phase = "idle"
  /\ err = "Aborted"
  /\ abortedAt.phase = "functions"
  /\ Len(dbResults) > 0 /\ Len(storageResults) > 0 /\ Len(authResults) > 0

====
